---- MODULE Spec2Model ----
(***************************************************************************)
(* Model of the gastown-calculator expression engine (formula.ts):         *)
(* tokenize, the recursive-descent evaluator evaluateExpression and the    *)
(* numeric primitives it uses.  An expression is a sequence of one-        *)
(* character strings.  A number is an IEEE-754 double; the model tracks    *)
(* exactly the doubles s * n / d with d a power of two and n, d at most    *)
(* MaxMagnitude, +-0, +-Infinity and NaN.  On these the double operations  *)
(* are exact.  Any other double is Unrep ("not tracked"); inputs whose     *)
(* evaluation meets such a value are left out of the initial states.       *)
(***************************************************************************)
EXTENDS Integers, Sequences, FiniteSets, TLC

\* formulaExpression: the text handed to evaluateExpression; values: the
\* variables mapping handed to it; pc: "ready" before the call, "evaluated"
\* after it; result: what the call returned or threw.
VARIABLES formulaExpression, values, pc, result

\* lexResult: what tokenize(formulaExpression) returned or threw;
\* extracted: what extractVariables(formulaExpression) returned or threw.
VARIABLES lexResult, extracted

\* localStorage: the item stored under STORAGE_KEY; lastCall: the storage
\* function called last, its argument, the item it found and whether it
\* returned; loaded: what that call returned if it was loadFormulas.
VARIABLES localStorage, loaded, lastCall

engineVars == <<formulaExpression, values, pc, result>>
lexVars == <<lexResult, extracted>>
\* state: the CalculatorState the reducer functions are applied to;
\* lastAction: the reducer function applied last, its argument and the state
\* it was applied to; steps: how many have been applied.
VARIABLES state, lastAction, steps

\* earlier: the setOperator applied last, its argument and the state it was
\* applied to.
VARIABLES earlier

\* calls: the calls of tokenize, extractVariables and evaluateExpression in
\* progress, each with its arguments, its position in the code and the
\* locals on its stack; frames: the token list and the cursors of each call.
VARIABLES calls, frames

\* history: the undo history of main.ts; activeOperator: the operator button
\* shown as active; textContent: the text of the display element; log: every
\* key pressed and every formula evaluated so far, with the state it met;
\* historyBefore: the history as the last of them met it; freed: how many of
\* them were chosen freely.
VARIABLES history, activeOperator, textContent, log, historyBefore, freed

storeVars == <<localStorage, loaded, lastCall>>
calcVars == <<state, lastAction, steps, earlier>>
callVars == <<calls, frames>>
mainVars == <<history, activeOperator, textContent, log, historyBefore, freed>>
vars == <<engineVars, lexVars, storeVars, calcVars, callVars, mainVars>>

\* --------------------------------------------------------------- bounds
\* Largest numerator / denominator of a tracked double.
MaxMagnitude == 4096
\* Longest input, in lexemes, of the exhaustive input family.
MaxLexemes == 3
\* Largest number literal of the operand templates.
MaxOperand == 3

\* ------------------------------------------------------ double values
NaN == [k |-> "nan", s |-> 1, n |-> 0, d |-> 1]
Unrep == [k |-> "unrep", s |-> 1, n |-> 0, d |-> 1]
Inf(sign) == [k |-> "inf", s |-> sign, n |-> 0, d |-> 1]
Zero(sign) == [k |-> "num", s |-> sign, n |-> 0, d |-> 1]

RECURSIVE Gcd(_, _)
Gcd(a, b) == IF b = 0 THEN a ELSE Gcd(b, a % b)

RECURSIVE IsPow2(_)
IsPow2(m) == IF m = 1 THEN TRUE ELSE IF m % 2 = 1 THEN FALSE ELSE IsPow2(m \div 2)

\* The double of sign * num / den (num >= 0, den > 0), when it is tracked.
Mk(sign, num, den) ==
  IF num = 0 THEN Zero(sign)
  ELSE LET g == Gcd(num, den)
           rn == num \div g
           rd == den \div g
       IN IF rn > MaxMagnitude \/ rd > MaxMagnitude \/ ~IsPow2(rd)
            THEN Unrep
            ELSE [k |-> "num", s |-> sign, n |-> rn, d |-> rd]

FromInt(i) == IF i < 0 THEN Mk(-1, -i, 1) ELSE Mk(1, i, 1)

IsNaN(v) == v.k = "nan"
IsNum(v) == v.k = "num"
IsInf(v) == v.k = "inf"
\* value === 0 (true of +0 and of -0)
IsZero(v) == v.k = "num" /\ v.n = 0
\* value < 0 and value <= 0 on tracked doubles (false when v is NaN)
LtZero(v) == (v.k = "inf" /\ v.s = -1) \/ (v.k = "num" /\ v.n > 0 /\ v.s = -1)
LeZero(v) == LtZero(v) \/ IsZero(v)
IsInteger(v) == v.k = "num" /\ v.d = 1
IsOddInteger(v) == IsInteger(v) /\ v.n % 2 = 1

\* unary minus
Neg(v) == IF v.k \in {"nan", "unrep"} THEN v ELSE [v EXCEPT !.s = -v.s]

\* left + right
Add(a, b) ==
  IF IsNaN(a) \/ IsNaN(b) THEN NaN
  ELSE IF a.k = "unrep" \/ b.k = "unrep" THEN Unrep
  ELSE IF IsInf(a) /\ IsInf(b) THEN (IF a.s = b.s THEN a ELSE NaN)
  ELSE IF IsInf(a) THEN a
  ELSE IF IsInf(b) THEN b
  ELSE LET num == a.s * a.n * b.d + b.s * b.n * a.d
           den == a.d * b.d
       IN IF num = 0 THEN Zero(IF a.s = -1 /\ b.s = -1 THEN -1 ELSE 1)
          ELSE IF num < 0 THEN Mk(-1, -num, den)
          ELSE Mk(1, num, den)

\* left - right
Sub(a, b) == Add(a, Neg(b))

\* left * right
Mul(a, b) ==
  IF IsNaN(a) \/ IsNaN(b) THEN NaN
  ELSE IF a.k = "unrep" \/ b.k = "unrep" THEN Unrep
  ELSE IF IsInf(a) \/ IsInf(b)
    THEN (IF IsZero(a) \/ IsZero(b) THEN NaN ELSE Inf(a.s * b.s))
  ELSE Mk(a.s * b.s, a.n * b.n, a.d * b.d)

\* left / right of IEEE-754 (the evaluator never calls it with right = 0)
Quot(a, b) ==
  IF IsNaN(a) \/ IsNaN(b) THEN NaN
  ELSE IF a.k = "unrep" \/ b.k = "unrep" THEN Unrep
  ELSE IF IsInf(a) THEN (IF IsInf(b) THEN NaN ELSE Inf(a.s * b.s))
  ELSE IF IsInf(b) THEN Zero(a.s * b.s)
  ELSE IF IsZero(b) THEN (IF IsZero(a) THEN NaN ELSE Inf(a.s * b.s))
  ELSE Mk(a.s * b.s, a.n * b.d, a.d * b.n)

\* b^e for naturals b >= 2, stopped once it exceeds MaxMagnitude
RECURSIVE PowAcc(_, _, _)
PowAcc(b, e, acc) ==
  IF e = 0 \/ acc > MaxMagnitude THEN acc ELSE PowAcc(b, e - 1, acc * b)

NatPow(b, e) == IF b = 1 THEN 1 ELSE PowAcc(b, e, 1)

\* |v| compared with 1, for a finite non-zero v: -1, 0 or 1
CmpOne(v) == IF v.n > v.d THEN 1 ELSE IF v.n = v.d THEN 0 ELSE -1

\* Math.pow(base, exp) (ECMAScript Number::exponentiate)
Pow(base, exp) ==
  IF IsNaN(exp) THEN NaN
  ELSE IF IsZero(exp) THEN FromInt(1)
  ELSE IF exp.k = "unrep" THEN Unrep
  ELSE IF IsNaN(base) THEN NaN
  ELSE IF base.k = "unrep" THEN Unrep
  ELSE IF IsInf(base) /\ base.s = 1
    THEN (IF exp.s = 1 THEN Inf(1) ELSE Zero(1))
  ELSE IF IsInf(base)
    THEN (IF exp.s = 1
            THEN (IF IsOddInteger(exp) THEN Inf(-1) ELSE Inf(1))
            ELSE (IF IsOddInteger(exp) THEN Zero(-1) ELSE Zero(1)))
  ELSE IF IsZero(base)
    THEN (IF exp.s = 1
            THEN (IF IsOddInteger(exp) THEN Zero(base.s) ELSE Zero(1))
            ELSE (IF IsOddInteger(exp) THEN Inf(base.s) ELSE Inf(1)))
  ELSE IF IsInf(exp)
    THEN (IF CmpOne(base) = 0 THEN NaN
          ELSE IF (CmpOne(base) = 1) = (exp.s = 1) THEN Inf(1) ELSE Zero(1))
  ELSE IF ~IsInteger(exp)
    THEN (IF base.s = -1 THEN NaN
          ELSE IF CmpOne(base) = 0 THEN FromInt(1) ELSE Unrep)
  ELSE LET sign == IF base.s = -1 /\ IsOddInteger(exp) THEN -1 ELSE 1
           pn == NatPow(base.n, exp.n)
           pd == NatPow(base.d, exp.n)
       IN IF pn > MaxMagnitude \/ pd > MaxMagnitude THEN Unrep
          ELSE IF exp.s = 1 THEN Mk(sign, pn, pd) ELSE Mk(sign, pd, pn)

IsSquare(m) == \E r \in 0..m : r * r = m
Root(m) == CHOOSE r \in 0..m : r * r = m

\* Math.sin and Math.tan: exact at +-0 only
MathSinTan(v) ==
  IF IsNaN(v) \/ IsInf(v) THEN NaN
  ELSE IF IsZero(v) THEN v
  ELSE Unrep

\* Math.cos: exact at +-0 only
MathCos(v) ==
  IF IsNaN(v) \/ IsInf(v) THEN NaN
  ELSE IF IsZero(v) THEN FromInt(1)
  ELSE Unrep

\* Math.log on a value that is not <= 0
MathLog(v) ==
  IF IsNaN(v) THEN NaN
  ELSE IF IsInf(v) THEN v
  ELSE IF v = FromInt(1) THEN Zero(1)
  ELSE Unrep

\* Math.log10 on a value that is not <= 0
MathLog10(v) ==
  IF IsNaN(v) THEN NaN
  ELSE IF IsInf(v) THEN v
  ELSE IF v = FromInt(1) THEN Zero(1)
  ELSE IF v = FromInt(10) THEN FromInt(1)
  ELSE IF v = FromInt(100) THEN FromInt(2)
  ELSE Unrep

\* Math.sqrt on a value that is not < 0
MathSqrt(v) ==
  IF IsNaN(v) THEN NaN
  ELSE IF v.k = "unrep" THEN Unrep
  ELSE IF IsInf(v) \/ IsZero(v) THEN v
  ELSE IF IsSquare(v.n) /\ IsSquare(v.d) THEN Mk(1, Root(v.n), Root(v.d))
  ELSE Unrep

\* Math.abs
MathAbs(v) == IF v.k \in {"nan", "unrep"} THEN v ELSE [v EXCEPT !.s = 1]

\* ---------------------------------------------------------- characters
Digits == {"0", "1", "2", "3", "4", "5", "6", "7", "8", "9"}
LowerLetters == {"a", "b", "c", "d", "e", "f", "g", "h", "i", "j", "k", "l", "m",
                 "n", "o", "p", "q", "r", "s", "t", "u", "v", "w", "x", "y", "z"}
UpperLetters == {"A", "B", "C", "D", "E", "F", "G", "H", "I", "J", "K", "L", "M",
                 "N", "O", "P", "Q", "R", "S", "T", "U", "V", "W", "X", "Y", "Z"}
\* the characters /\s/ matches, among those of the inputs
Whitespace == {" ", "\t", "\n"}
OperatorChars == {"+", "-", "*", "/", "^"}

DigitValue(c) ==
  CASE c = "0" -> 0 [] c = "1" -> 1 [] c = "2" -> 2 [] c = "3" -> 3 [] c = "4" -> 4
    [] c = "5" -> 5 [] c = "6" -> 6 [] c = "7" -> 7 [] c = "8" -> 8 [] c = "9" -> 9

IsNumberChar(c) == c \in Digits \/ c = "."
IsNameStart(c) == c \in LowerLetters \/ c \in UpperLetters \/ c = "_"
IsNameChar(c) == IsNameStart(c) \/ c \in Digits

\* first index >= i of str that holds no digit
RECURSIVE SkipDigits(_, _)
SkipDigits(str, i) ==
  IF i <= Len(str) /\ str[i] \in Digits THEN SkipDigits(str, i + 1) ELSE i

\* the natural number written by the digits str[i .. j-1], after acc
RECURSIVE DigitsValue(_, _, _, _)
DigitsValue(str, i, j, acc) ==
  IF i >= j THEN acc ELSE DigitsValue(str, i + 1, j, acc * 10 + DigitValue(str[i]))

RECURSIVE Pow10(_)
Pow10(e) == IF e = 0 THEN 1 ELSE 10 * Pow10(e - 1)

\* parseFloat on a run of digits and '.': the longest prefix that is a decimal
\* literal (digits, at most one '.', digits); NaN when that prefix has no digit.
ParseFloatStrict(str) ==
  LET e1 == SkipDigits(str, 1)
      hasDot == e1 <= Len(str) /\ str[e1] = "."
      e2 == IF hasDot THEN SkipDigits(str, e1 + 1) ELSE e1
      fracLen == IF hasDot THEN e2 - e1 - 1 ELSE 0
  IN IF (e1 - 1) + fracLen = 0 \/ e2 <= Len(str) THEN NaN
     ELSE IF fracLen = 0 THEN Mk(1, DigitsValue(str, 1, e1, 0), 1)
     ELSE Mk(1, DigitsValue(str, 1, e1, 0) * Pow10(fracLen)
                  + DigitsValue(str, e1 + 1, e2, 0), Pow10(fracLen))
ParseFloat(str) ==
  LET e1 == SkipDigits(str, 1)
      hasDot == e1 <= Len(str) /\ str[e1] = "."
      e2 == IF hasDot THEN SkipDigits(str, e1 + 1) ELSE e1
      fracLen == IF hasDot THEN e2 - e1 - 1 ELSE 0
  IN IF (e1 - 1) + fracLen = 0 THEN NaN
     ELSE IF fracLen = 0 THEN Mk(1, DigitsValue(str, 1, e1, 0), 1)
     ELSE Mk(1, DigitsValue(str, 1, e1, 0) * Pow10(fracLen)
                  + DigitsValue(str, e1 + 1, e2, 0), Pow10(fracLen))

\* --------------------------------------------------------------- lexer
FUNCTIONS == {<<"s", "i", "n">>, <<"c", "o", "s">>, <<"t", "a", "n">>, <<"l", "n">>,
              <<"l", "o", "g">>, <<"s", "q", "r", "t">>, <<"a", "b", "s">>}

NumberToken(v) == [type |-> "number", value |-> v]
VariableToken(nm) == [type |-> "variable", name |-> nm]
OperatorToken(c) == [type |-> "operator", value |-> c]
ParenToken(c) == [type |-> "paren", value |-> c]
FunctionToken(nm) == [type |-> "function", name |-> nm]

NoError == [msg |-> "", detail |-> <<>>]
Error(msg, detail) == [msg |-> msg, detail |-> detail]

\* expression.replace(/\s+/g, "")
NotWhitespace(c) == c \notin Whitespace
StripWhitespaceNone(str) == str
StripWhitespace(str) == SelectSeq(str, NotWhitespace)

\* first index >= i of expr that holds no digit and no '.'
RECURSIVE NumberEnd(_, _)
NumberEnd(expr, i) ==
  IF i <= Len(expr) /\ IsNumberChar(expr[i]) THEN NumberEnd(expr, i + 1) ELSE i

\* first index >= i of expr that holds no letter, digit or '_'
RECURSIVE NameEnd(_, _)
NameEnd(expr, i) ==
  IF i <= Len(expr) /\ IsNameChar(expr[i]) THEN NameEnd(expr, i + 1) ELSE i

\* the token pushed for an identifier
NameTokenAlwaysVariable(name) == VariableToken(name)
NameToken(name) ==
  IF name \in FUNCTIONS THEN FunctionToken(name) ELSE VariableToken(name)

\* the while loop of tokenize, from index i (1-based) with the tokens so far
RECURSIVE Scan(_, _, _)
Scan(expr, i, tokens) ==
  IF i > Len(expr) THEN [status |-> "ok", tokens |-> tokens, error |-> NoError]
  ELSE LET ch == expr[i] IN
    IF IsNumberChar(ch)
      THEN LET j == NumberEnd(expr, i)
           IN Scan(expr, j, Append(tokens, NumberToken(ParseFloat(SubSeq(expr, i, j - 1)))))
    ELSE IF IsNameStart(ch)
      THEN LET j == NameEnd(expr, i)
               name == SubSeq(expr, i, j - 1)
           IN Scan(expr, j, Append(tokens, NameToken(name)))
    ELSE IF ch \in OperatorChars
      THEN Scan(expr, i + 1, Append(tokens, OperatorToken(ch)))
    ELSE IF ch = "(" \/ ch = ")"
      THEN Scan(expr, i + 1, Append(tokens, ParenToken(ch)))
    ELSE [status |-> "throw", tokens |-> <<>>,
          error |-> Error("Unexpected character", <<ch>>)]

tokenize(expression) == Scan(StripWhitespace(expression), 1, <<>>)

\* -------------------------------------------------- parser / evaluator
\* The cursor pos counts consumed tokens (tokens[pos] of the code is
\* tokens[pos + 1] here).  A parse function takes the parser state
\* [pos, trace] and yields [status, value, pos, trace, error]; trace is the
\* history of the arithmetic operations carried out so far, each with its
\* name (an operator or function name; "-" with one operand is the unary
\* minus), its operands and its result.
NoValue == [k |-> "none", s |-> 1, n |-> 0, d |-> 1]

Ok(v, pos, trace) ==
  [status |-> "ok", value |-> v, pos |-> pos, trace |-> trace, error |-> NoError]
Throw(msg, detail, pos, trace) ==
  [status |-> "throw", value |-> NoValue, pos |-> pos, trace |-> trace,
   error |-> Error(msg, detail)]
Ev(op, args, out) == [op |-> op, args |-> args, out |-> out]

\* peek() is defined
HasToken(tokens, pos) == pos < Len(tokens)
\* peek()
Peek(tokens, pos) == tokens[pos + 1]
\* peek()?.type === "operator" && peek().value is one of ops
PeekIsOperator(tokens, pos, ops) ==
  /\ HasToken(tokens, pos)
  /\ Peek(tokens, pos).type = "operator"
  /\ Peek(tokens, pos).value \in ops
\* peek()?.type === "paren" && peek().value === ch
PeekIsParen(tokens, pos, ch) ==
  /\ HasToken(tokens, pos)
  /\ Peek(tokens, pos).type = "paren"
  /\ Peek(tokens, pos).value = ch

\* Divide without the test for a zero divisor
DivideUnguarded(left, right) == Quot(left, right)

\* left = right === 0 ? NaN : left / right
Divide(left, right) == IF IsZero(right) THEN NaN ELSE Quot(left, right)

\* applyFunction, for the names of FUNCTIONS
applyFunction(name, value) ==
  CASE name = <<"s", "i", "n">> -> MathSinTan(value)
    [] name = <<"c", "o", "s">> -> MathCos(value)
    [] name = <<"t", "a", "n">> -> MathSinTan(value)
    [] name = <<"l", "n">> ->
         IF value.k = "unrep" THEN Unrep
         ELSE IF LeZero(value) THEN NaN ELSE MathLog(value)
    [] name = <<"l", "o", "g">> ->
         IF value.k = "unrep" THEN Unrep
         ELSE IF LeZero(value) THEN NaN ELSE MathLog10(value)
    [] name = <<"s", "q", "r", "t">> ->
         IF value.k = "unrep" THEN Unrep
         ELSE IF LtZero(value) THEN NaN ELSE MathSqrt(value)
    [] name = <<"a", "b", "s">> -> MathAbs(value)

\* "const v = x; K(v)": the value of x is computed once and handed to K.
Bind(x, K(_)) == CHOOSE y \in {K(v) : v \in {x}} : TRUE

RECURSIVE parseAddSub(_, _, _)
RECURSIVE addSubLoop(_, _, _)
RECURSIVE parseTerm(_, _, _)
RECURSIVE termLoop(_, _, _)
RECURSIVE parsePower(_, _, _)
RECURSIVE parseUnary(_, _, _)
RECURSIVE parseAtom(_, _, _)
RECURSIVE atomFunction(_, _, _)
RECURSIVE atomParen(_, _, _)
RECURSIVE atomDispatch(_, _, _)

\* atomVariable without the test for an unbound name (the lookup yields NaN)
atomVariableUnchecked(tokens, variables, p) ==
  LET token == Peek(tokens, p.pos) IN
  Ok(IF token.name \in DOMAIN variables THEN variables[token.name] ELSE NaN,
     p.pos + 1, p.trace)

\* parseAtom on a variable token: consume it, then look it up
atomVariable(tokens, variables, p) ==
  LET token == Peek(tokens, p.pos) IN
  IF token.name \notin DOMAIN variables
    THEN Throw("Undefined variable", token.name, p.pos + 1, p.trace)
    ELSE Ok(variables[token.name], p.pos + 1, p.trace)

\* the end of a function call: the ")" and applyFunction
callEnd(tokens, name, arg) ==
  IF arg.status = "throw" THEN arg
  ELSE IF ~PeekIsParen(tokens, arg.pos, ")")
    THEN Throw("Expected ) after function argument", <<>>, arg.pos, arg.trace)
    ELSE Bind(applyFunction(name, arg.value),
              LAMBDA v : Ok(v, arg.pos + 1, Append(arg.trace, Ev(name, <<arg.value>>, v))))

\* parseAtom on a function token: name ( AddSub )
atomFunction(tokens, variables, p) ==
  LET token == Peek(tokens, p.pos) IN
  IF ~PeekIsParen(tokens, p.pos + 1, "(")
    THEN Throw("Expected ( after function", token.name, p.pos + 1, p.trace)
    ELSE Bind(parseAddSub(tokens, variables, [pos |-> p.pos + 2, trace |-> p.trace]),
              LAMBDA arg : callEnd(tokens, token.name, arg))

\* atomParen that does not insist on the closing parenthesis
atomParenUnchecked(tokens, variables, p) ==
  Bind(parseAddSub(tokens, variables, [pos |-> p.pos + 1, trace |-> p.trace]),
       LAMBDA r : IF r.status = "throw" THEN r
                  ELSE IF ~PeekIsParen(tokens, r.pos, ")") THEN Ok(r.value, r.pos, r.trace)
                  ELSE Ok(r.value, r.pos + 1, r.trace))

\* parseAtom on "(": ( AddSub )
atomParen(tokens, variables, p) ==
  Bind(parseAddSub(tokens, variables, [pos |-> p.pos + 1, trace |-> p.trace]),
       LAMBDA r : IF r.status = "throw" THEN r
                  ELSE IF ~PeekIsParen(tokens, r.pos, ")")
                    THEN Throw("Mismatched parentheses", <<>>, r.pos, r.trace)
                  ELSE Ok(r.value, r.pos + 1, r.trace))

\* parseAtom once a token is known to be there
atomDispatch(tokens, variables, p) ==
  LET token == Peek(tokens, p.pos) IN
  IF token.type = "number" THEN Ok(token.value, p.pos + 1, p.trace)
  ELSE IF token.type = "variable" THEN atomVariable(tokens, variables, p)
  ELSE IF token.type = "function" THEN atomFunction(tokens, variables, p)
  ELSE IF token.type = "paren" /\ token.value = "(" THEN atomParen(tokens, variables, p)
  ELSE Throw("Unexpected token", <<token.value>>, p.pos, p.trace)

\* parseAtom without the test for the end of the tokens
parseAtomNoEndCheck(tokens, variables, p) ==
  IF ~HasToken(tokens, p.pos)
    THEN Throw("Unexpected token", <<>>, p.pos, p.trace)
    ELSE atomDispatch(tokens, variables, p)

parseAtom(tokens, variables, p) ==
  IF ~HasToken(tokens, p.pos)
    THEN Throw("Unexpected end of expression", <<>>, p.pos, p.trace)
    ELSE atomDispatch(tokens, variables, p)

\* return -parseUnary()
negated(r) ==
  IF r.status = "throw" THEN r
  ELSE Ok(Neg(r.value), r.pos, Append(r.trace, Ev(<<"-">>, <<r.value>>, Neg(r.value))))

\* parseUnary whose minus takes a whole Power as its operand
parseUnaryLoose(tokens, variables, p) ==
  IF PeekIsOperator(tokens, p.pos, {"-"})
    THEN Bind(parsePower(tokens, variables, [pos |-> p.pos + 1, trace |-> p.trace]),
              LAMBDA r : negated(r))
  ELSE IF PeekIsOperator(tokens, p.pos, {"+"})
    THEN parseUnary(tokens, variables, [pos |-> p.pos + 1, trace |-> p.trace])
  ELSE parseAtom(tokens, variables, p)

parseUnary(tokens, variables, p) ==
  IF PeekIsOperator(tokens, p.pos, {"-"})
    THEN Bind(parseUnary(tokens, variables, [pos |-> p.pos + 1, trace |-> p.trace]),
              LAMBDA r : negated(r))
  ELSE IF PeekIsOperator(tokens, p.pos, {"+"})
    THEN parseUnary(tokens, variables, [pos |-> p.pos + 1, trace |-> p.trace])
  ELSE parseAtom(tokens, variables, p)

\* left = left op right, for the operators of the loops and of parsePower
applied(op, left, right) ==
  IF right.status = "throw" THEN right
  ELSE Bind(CASE op = "+" -> Add(left.value, right.value)
              [] op = "-" -> Sub(left.value, right.value)
              [] op = "*" -> Mul(left.value, right.value)
              [] op = "/" -> Divide(left.value, right.value)
              [] op = "^" -> Pow(left.value, right.value),
            LAMBDA v : Ok(v, right.pos,
                          Append(right.trace, Ev(<<op>>, <<left.value, right.value>>, v))))

\* parsePower as a left-associative loop
RECURSIVE powerLoopLeft(_, _, _)
powerLoopLeft(tokens, variables, base) ==
  IF base.status = "ok" /\ PeekIsOperator(tokens, base.pos, {"^"})
    THEN Bind(parseUnary(tokens, variables, [pos |-> base.pos + 1, trace |-> base.trace]),
              LAMBDA exp : Bind(applied("^", base, exp),
                                LAMBDA r : powerLoopLeft(tokens, variables, r)))
  ELSE base

parsePowerLeftAssoc(tokens, variables, p) ==
  Bind(parseUnary(tokens, variables, p), LAMBDA base : powerLoopLeft(tokens, variables, base))

\* the "^ Power" that may follow the base of parsePower
powerTail(tokens, variables, base) ==
  IF base.status = "throw" THEN base
  ELSE IF PeekIsOperator(tokens, base.pos, {"^"})
    THEN Bind(parsePower(tokens, variables, [pos |-> base.pos + 1, trace |-> base.trace]),
              LAMBDA exp : applied("^", base, exp))
  ELSE base

parsePower(tokens, variables, p) ==
  Bind(parseUnary(tokens, variables, p), LAMBDA base : powerTail(tokens, variables, base))

\* termLoop that also takes + and -, so that the four operators share a level
RECURSIVE termLoopFlat(_, _, _)
termLoopFlat(tokens, variables, left) ==
  IF left.status = "ok" /\ PeekIsOperator(tokens, left.pos, {"*", "/", "+", "-"})
    THEN Bind(parsePower(tokens, variables, [pos |-> left.pos + 1, trace |-> left.trace]),
              LAMBDA right : Bind(applied(Peek(tokens, left.pos).value, left, right),
                                  LAMBDA r : termLoopFlat(tokens, variables, r)))
  ELSE left

\* the while loop of parseTerm, with left the result so far
termLoop(tokens, variables, left) ==
  IF left.status = "ok" /\ PeekIsOperator(tokens, left.pos, {"*", "/"})
    THEN Bind(parsePower(tokens, variables, [pos |-> left.pos + 1, trace |-> left.trace]),
              LAMBDA right : Bind(applied(Peek(tokens, left.pos).value, left, right),
                                  LAMBDA r : termLoop(tokens, variables, r)))
  ELSE left

\* parseTerm over the flat loop
parseTermFlat(tokens, variables, p) ==
  Bind(parsePower(tokens, variables, p), LAMBDA left : termLoopFlat(tokens, variables, left))

parseTerm(tokens, variables, p) ==
  Bind(parsePower(tokens, variables, p), LAMBDA left : termLoop(tokens, variables, left))

\* parseAddSub that groups to the right: Term (op AddSub)?
addSubTailRight(tokens, variables, left) ==
  IF left.status = "ok" /\ PeekIsOperator(tokens, left.pos, {"+", "-"})
    THEN Bind(parseAddSub(tokens, variables, [pos |-> left.pos + 1, trace |-> left.trace]),
              LAMBDA right : applied(Peek(tokens, left.pos).value, left, right))
  ELSE left

parseAddSubRightAssoc(tokens, variables, p) ==
  Bind(parseTerm(tokens, variables, p), LAMBDA left : addSubTailRight(tokens, variables, left))

\* the while loop of parseAddSub, with left the result so far
addSubLoop(tokens, variables, left) ==
  IF left.status = "ok" /\ PeekIsOperator(tokens, left.pos, {"+", "-"})
    THEN Bind(parseTerm(tokens, variables, [pos |-> left.pos + 1, trace |-> left.trace]),
              LAMBDA right : Bind(applied(Peek(tokens, left.pos).value, left, right),
                                  LAMBDA r : addSubLoop(tokens, variables, r)))
  ELSE left

parseAddSub(tokens, variables, p) ==
  Bind(parseTerm(tokens, variables, p), LAMBDA left : addSubLoop(tokens, variables, left))

\* the end of evaluateExpression without the test for unconsumed tokens
finishPrefix(tokens, r) ==
  IF r.status = "throw"
    THEN [status |-> "error", value |-> NoValue, error |-> r.error,
          tokens |-> tokens, pos |-> r.pos, trace |-> r.trace]
    ELSE [status |-> "value", value |-> r.value, error |-> NoError,
          tokens |-> tokens, pos |-> r.pos, trace |-> r.trace]

\* the end of evaluateExpression: r is what the top-level parseAddSub gave
finish(tokens, r) ==
  IF r.status = "throw"
    THEN [status |-> "error", value |-> NoValue, error |-> r.error,
          tokens |-> tokens, pos |-> r.pos, trace |-> r.trace]
  ELSE IF r.pos < Len(tokens)
    THEN [status |-> "error", value |-> NoValue,
          error |-> Error("Unexpected tokens after expression", <<>>),
          tokens |-> tokens, pos |-> r.pos, trace |-> r.trace]
  ELSE [status |-> "value", value |-> r.value, error |-> NoError,
        tokens |-> tokens, pos |-> r.pos, trace |-> r.trace]

\* the body of evaluateExpression after tokenize
parseTokens(lexed, variables) ==
  IF lexed.status = "throw"
    THEN [status |-> "error", value |-> NoValue, error |-> lexed.error,
          tokens |-> <<>>, pos |-> 0, trace |-> <<>>]
    ELSE Bind(parseAddSub(lexed.tokens, variables, [pos |-> 0, trace |-> <<>>]),
              LAMBDA r : finish(lexed.tokens, r))

\* evaluateExpression: "value" with the number returned, or "error" with the
\* Error thrown; tokens, pos and trace are the call's locals at its end.
evaluateExpression(expression, variables) ==
  Bind(tokenize(expression), LAMBDA lexed : parseTokens(lexed, variables))

\* ---------------------------------------------------- extractVariables
\* The characters of a name in ascending UTF-16 code unit order, the order
\* Array.prototype.sort uses for strings when it is given no comparator.
CodeUnitOrder ==
  <<"0", "1", "2", "3", "4", "5", "6", "7", "8", "9",
    "A", "B", "C", "D", "E", "F", "G", "H", "I", "J", "K", "L", "M",
    "N", "O", "P", "Q", "R", "S", "T", "U", "V", "W", "X", "Y", "Z", "_",
    "a", "b", "c", "d", "e", "f", "g", "h", "i", "j", "k", "l", "m",
    "n", "o", "p", "q", "r", "s", "t", "u", "v", "w", "x", "y", "z">>
CodeUnitRank(c) == CHOOSE i \in 1..Len(CodeUnitOrder) : CodeUnitOrder[i] = c

\* a < b as strings: at the first index where they differ a has the smaller
\* code unit, or a is a proper prefix of b
RECURSIVE NameLess(_, _)
NameLess(a, b) ==
  IF b = <<>> THEN FALSE
  ELSE IF a = <<>> THEN TRUE
  ELSE IF Head(a) = Head(b) THEN NameLess(Tail(a), Tail(b))
  ELSE CodeUnitRank(Head(a)) < CodeUnitRank(Head(b))

\* Set.prototype.add on a Set kept in insertion order
AddName(seen, name) ==
  IF \E i \in 1..Len(seen) : seen[i] = name THEN seen ELSE Append(seen, name)

\* the for loop over the tokens: the names of the variable tokens, each once,
\* in order of first occurrence
RECURSIVE CollectVariables(_, _, _)
CollectVariables(tokens, i, seen) ==
  IF i > Len(tokens) THEN seen
  ELSE CollectVariables(tokens, i + 1,
         IF tokens[i].type = "variable" THEN AddName(seen, tokens[i].name) ELSE seen)

RECURSIVE InsertSorted(_, _)
InsertSorted(sorted, name) ==
  IF sorted = <<>> THEN <<name>>
  ELSE IF NameLess(name, Head(sorted)) THEN <<name>> \o sorted
  ELSE <<Head(sorted)>> \o InsertSorted(Tail(sorted), name)

\* Array.prototype.sort() without comparator
RECURSIVE SortNames(_)
SortNamesNone(names) == names
SortNames(names) ==
  IF names = <<>> THEN <<>>
  ELSE InsertSorted(SortNames(SubSeq(names, 1, Len(names) - 1)), names[Len(names)])

namesOf(lexed) ==
  IF lexed.status = "throw"
    THEN [status |-> "ok", names |-> <<>>]
    ELSE [status |-> "ok", names |-> SortNames(CollectVariables(lexed.tokens, 1, <<>>))]

\* [status |-> "ok", names |-> the array returned], or status "throw" if the
\* call raised
extractVariablesNoCatch(expression) ==
  Bind(tokenize(expression),
       LAMBDA lexed : IF lexed.status = "throw"
                        THEN [status |-> "throw", names |-> <<>>]
                        ELSE namesOf(lexed))
extractVariables(expression) == Bind(tokenize(expression), LAMBDA lexed : namesOf(lexed))

\* ------------------------------------------------------ formula storage
\* A Formula is [name, expression, variables]: two strings and a list of
\* strings.  The item under STORAGE_KEY is absent (getItem gives null) or a
\* text.
Formula(name, expression, variables) ==
  [name |-> name, expression |-> expression, variables |-> variables]
NoItem == [present |-> FALSE, text |-> <<>>]
Item(text) == [present |-> TRUE, text |-> text]

\* JSON.stringify of a Formula[]: strings are quoted, with '"' and '\'
\* escaped by a '\'; no white space is written.
RECURSIVE Escape(_)
Escape(str) ==
  IF str = <<>> THEN <<>>
  ELSE (IF Head(str) \in {"\"", "\\"} THEN <<"\\", Head(str)>> ELSE <<Head(str)>>)
       \o Escape(Tail(str))
Quote(str) == <<"\"">> \o Escape(str) \o <<"\"">>

\* the elements written by write(_), separated by ','
RECURSIVE Join(_, _)
Join(strs, i) ==
  IF i > Len(strs) THEN <<>>
  ELSE (IF i > 1 THEN <<",">> ELSE <<>>) \o strs[i] \o Join(strs, i + 1)

NameKey == <<"\"", "n", "a", "m", "e", "\"", ":">>
ExpressionKey ==
  <<"\"", "e", "x", "p", "r", "e", "s", "s", "i", "o", "n", "\"", ":">>
VariablesKey ==
  <<"\"", "v", "a", "r", "i", "a", "b", "l", "e", "s", "\"", ":">>

StringifyStrings(strs) ==
  <<"[">> \o Join([i \in 1..Len(strs) |-> Quote(strs[i])], 1) \o <<"]">>
StringifyFormula(f) ==
  <<"{">> \o NameKey \o Quote(f.name) \o <<",">>
          \o ExpressionKey \o Quote(f.expression) \o <<",">>
          \o VariablesKey \o StringifyStrings(f.variables) \o <<"}">>
JSONstringify(formulas) ==
  <<"[">> \o Join([i \in 1..Len(formulas) |-> StringifyFormula(formulas[i])], 1)
          \o <<"]">>

\* JSON.parse, on the texts that occur: the texts JSON.stringify writes for
\* a Formula[], and texts that are no JSON at all.  Each parser returns
\* [ok, val, next]: whether it matched at index i, the value, and the index
\* after it.
NoParse == [ok |-> FALSE, val |-> <<>>, next |-> 0]
Parsed(val, next) == [ok |-> TRUE, val |-> val, next |-> next]
At(text, i, c) == i <= Len(text) /\ text[i] = c
Expect(text, i, lit) ==
  i + Len(lit) - 1 <= Len(text) /\ SubSeq(text, i, i + Len(lit) - 1) = lit

\* the characters of a string after its opening quote
RECURSIVE StringBody(_, _, _)
StringBody(text, i, acc) ==
  IF i > Len(text) THEN NoParse
  ELSE IF text[i] = "\"" THEN Parsed(acc, i + 1)
  ELSE IF text[i] = "\\"
    THEN IF At(text, i + 1, "\"") \/ At(text, i + 1, "\\")
           THEN StringBody(text, i + 2, Append(acc, text[i + 1]))
           ELSE NoParse
  ELSE StringBody(text, i + 1, Append(acc, text[i]))
ParseString(text, i) ==
  IF At(text, i, "\"") THEN StringBody(text, i + 1, <<>>) ELSE NoParse

\* the elements of a string array after its '['
RECURSIVE StringElements(_, _, _)
StringElements(text, i, acc) ==
  IF acc = <<>> /\ At(text, i, "]") THEN Parsed(acc, i + 1)
  ELSE Bind(ParseString(text, i), LAMBDA e :
         IF ~e.ok THEN NoParse
         ELSE IF At(text, e.next, ",")
           THEN StringElements(text, e.next + 1, Append(acc, e.val))
         ELSE IF At(text, e.next, "]")
           THEN Parsed(Append(acc, e.val), e.next + 1)
         ELSE NoParse)
ParseStrings(text, i) ==
  IF At(text, i, "[") THEN StringElements(text, i + 1, <<>>) ELSE NoParse

formulaVariables(text, name, expression, i) ==
  IF ~Expect(text, i, <<",">> \o VariablesKey) THEN NoParse
  ELSE Bind(ParseStrings(text, i + 1 + Len(VariablesKey)), LAMBDA v :
         IF v.ok /\ At(text, v.next, "}")
           THEN Parsed(Formula(name, expression, v.val), v.next + 1)
           ELSE NoParse)
formulaExpressionField(text, name, i) ==
  IF ~Expect(text, i, <<",">> \o ExpressionKey) THEN NoParse
  ELSE Bind(ParseString(text, i + 1 + Len(ExpressionKey)), LAMBDA e :
         IF e.ok THEN formulaVariables(text, name, e.val, e.next) ELSE NoParse)
ParseFormula(text, i) ==
  IF ~Expect(text, i, <<"{">> \o NameKey) THEN NoParse
  ELSE Bind(ParseString(text, i + 1 + Len(NameKey)), LAMBDA n :
         IF n.ok THEN formulaExpressionField(text, n.val, n.next) ELSE NoParse)

\* the elements of the formula array after its '['
RECURSIVE FormulaElements(_, _, _)
FormulaElements(text, i, acc) ==
  IF acc = <<>> /\ At(text, i, "]") THEN Parsed(acc, i + 1)
  ELSE Bind(ParseFormula(text, i), LAMBDA e :
         IF ~e.ok THEN NoParse
         ELSE IF At(text, e.next, ",")
           THEN FormulaElements(text, e.next + 1, Append(acc, e.val))
         ELSE IF At(text, e.next, "]")
           THEN Parsed(Append(acc, e.val), e.next + 1)
         ELSE NoParse)

\* [ok |-> FALSE] models the SyntaxError JSON.parse throws
JSONparse(text) ==
  IF ~At(text, 1, "[") THEN NoParse
  ELSE Bind(FormulaElements(text, 2, <<>>), LAMBDA l :
         IF l.ok /\ l.next = Len(text) + 1 THEN l ELSE NoParse)

\* what a storage function did: status "ok" with the value returned (a list
\* for loadFormulas) and the item left in storage, or status "throw"
Returned(formulas, item) == [status |-> "ok", formulas |-> formulas, item |-> item]
Raised(item) == [status |-> "throw", formulas |-> <<>>, item |-> item]

parsedOrEmpty(p, item) == Returned(IF p.ok THEN p.val ELSE <<>>, item)
loadFormulasNoCatch(item) ==
  IF ~item.present \/ item.text = <<>> THEN Returned(<<>>, item)
  ELSE Bind(JSONparse(item.text), LAMBDA p :
         IF p.ok THEN Returned(p.val, item) ELSE Raised(item))
loadFormulas(item) ==
  IF ~item.present \/ item.text = <<>> THEN Returned(<<>>, item)
  ELSE Bind(JSONparse(item.text), LAMBDA p : parsedOrEmpty(p, item))

\* formulas.findIndex(f => f.name === name): the first index, 0 for -1
findIndex(formulas, name) ==
  IF \E i \in 1..Len(formulas) : formulas[i].name = name
    THEN CHOOSE i \in 1..Len(formulas) :
           /\ formulas[i].name = name
           /\ \A j \in 1..(i - 1) : formulas[j].name # name
    ELSE 0

upsert(formulas, formula, existing) ==
  IF existing > 0 THEN [formulas EXCEPT ![existing] = formula]
  ELSE Append(formulas, formula)
setItem(formulas) == Returned(<<>>, Item(JSONstringify(formulas)))

saveFormulaPush(item, formula) ==
  Bind(loadFormulas(item), LAMBDA l : setItem(Append(l.formulas, formula)))
saveFormula(item, formula) ==
  Bind(loadFormulas(item), LAMBDA l :
    setItem(upsert(l.formulas, formula, findIndex(l.formulas, formula.name))))

deleteFormulaKeepNamed(item, name) ==
  Bind(loadFormulas(item), LAMBDA l :
    setItem(SelectSeq(l.formulas, LAMBDA f : f.name = name)))
deleteFormula(item, name) ==
  Bind(loadFormulas(item), LAMBDA l :
    setItem(SelectSeq(l.formulas, LAMBDA f : f.name # name)))

\* before any storage function has been called
NoLoad == [status |-> "none", formulas |-> <<>>]
NoFormula == Formula(<<>>, <<>>, <<>>)
NoCall == [op |-> "none", status |-> "none", formula |-> NoFormula, name |-> <<>>,
           before |-> NoItem]
StoreIdle == localStorage = NoItem /\ loaded = NoLoad /\ lastCall = NoCall

\* -------------------------------------------------------------- inputs
\* The decimal digits of a natural number, as characters.
DigitChar(v) == CHOOSE c \in Digits : DigitValue(c) = v
RECURSIVE ToChars(_)
ToChars(i) == IF i < 10 THEN <<DigitChar(i)>> ELSE ToChars(i \div 10) \o <<DigitChar(i % 10)>>

RECURSIVE Flatten(_)
Flatten(seqs) == IF seqs = <<>> THEN <<>> ELSE Head(seqs) \o Flatten(Tail(seqs))

\* Exhaustive family: every concatenation of at most MaxLexemes lexemes.
Lexemes == {<<"2">>, <<"3">>, <<".">>, <<"x">>, <<"s", "q", "r", "t">>,
            <<"+">>, <<"-">>, <<"*">>, <<"/">>, <<"^">>, <<"(">>, <<")">>, <<" ">>}
LexInputs == UNION {{Flatten(ls) : ls \in [1..len -> Lexemes]} : len \in 0..MaxLexemes}

\* Template family: operands a, b, c and operators op1, op2 in the shapes
\* "a op1 b op2 c", "(a op1 b) op2 c", "a op1 (b op2 c)", "-a op1 b",
\* "f(a)", "f(-a)" and "f(a op1 b)".
NumberOperands == {ToChars(i) : i \in 0..MaxOperand}
Operands == NumberOperands \cup {<<"x">>, <<".">>}
Flat(a, op1, b, op2, c) == a \o <<op1>> \o b \o <<op2>> \o c
GroupLeft(a, op1, b, op2, c) == <<"(">> \o a \o <<op1>> \o b \o <<")", op2>> \o c
GroupRight(a, op1, b, op2, c) == a \o <<op1, "(">> \o b \o <<op2>> \o c \o <<")">>
Signed(a, op, b) == <<"-">> \o a \o <<op>> \o b
Call(f, arg) == f \o <<"(">> \o arg \o <<")">>
TemplateInputs ==
  UNION {{Flat(a, op1, b, op2, c), GroupLeft(a, op1, b, op2, c),
          GroupRight(a, op1, b, op2, c)} :
         <<a, op1, b, op2, c>> \in
           Operands \X OperatorChars \X Operands \X OperatorChars \X Operands}
  \cup {Signed(a, op, b) : <<a, op, b>> \in Operands \X OperatorChars \X Operands}
  \cup UNION {{Call(f, a), Call(f, <<"-">> \o a)} : <<f, a>> \in FUNCTIONS \X Operands}
  \cup {Call(f, a \o <<op>> \o b) :
         <<f, a, op, b>> \in FUNCTIONS \X Operands \X OperatorChars \X Operands}

\* The variables mappings: none bound, and x bound to -2.
EmptyMap == [nm \in {} |-> NaN]
BoundMap == [nm \in {<<"x">>} |-> FromInt(-2)]
VarMaps == {EmptyMap, BoundMap}

\* Every double the call meets is one the model tracks.
Tracked(r) ==
  /\ \A i \in 1..Len(r.tokens) :
       r.tokens[i].type = "number" => r.tokens[i].value.k # "unrep"
  /\ \A i \in 1..Len(r.trace) :
       /\ r.trace[i].out.k # "unrep"
       /\ \A j \in 1..Len(r.trace[i].args) : r.trace[i].args[j].k # "unrep"

\* --------------------------------------------------- calculator reducer
\* A CalculatorState; operator is "null" when no operator is pending.
CalculatorState(display, previousOperand, currentOperand, operator, shouldResetDisplay) ==
  [display |-> display, previousOperand |-> previousOperand,
   currentOperand |-> currentOperand, operator |-> operator,
   shouldResetDisplay |-> shouldResetDisplay]

createInitialState == CalculatorState(<<"0">>, <<>>, <<"0">>, "null", FALSE)

ErrorText == <<"E", "r", "r", "o", "r">>
InfinityText == <<"I", "n", "f", "i", "n", "i", "t", "y">>
NaNText == <<"N", "a", "N">>
\* stands for the decimal text of a double the model does not track
UntrackedText == <<"?">>

\* the digits after the decimal point of r / d, for 0 <= r < d, d a power of 2
RECURSIVE FractionDigits(_, _)
FractionDigits(r, d) ==
  IF r = 0 THEN <<>>
  ELSE <<DigitChar((r * 10) \div d)>> \o FractionDigits((r * 10) % d, d)

\* String(value), for a tracked double
String(v) ==
  CASE v.k = "nan" -> NaNText
    [] v.k = "unrep" -> UntrackedText
    [] v.k = "inf" -> (IF v.s = -1 THEN <<"-">> ELSE <<>>) \o InfinityText
    [] v.k = "num" ->
         IF v.n = 0 THEN <<"0">>
         ELSE (IF v.s = -1 THEN <<"-">> ELSE <<>>)
              \o ToChars(v.n \div v.d)
              \o (IF v.n % v.d = 0 THEN <<>>
                  ELSE <<".">> \o FractionDigits(v.n % v.d, v.d))

HasPrefix(str, prefix) ==
  Len(str) >= Len(prefix) /\ SubSeq(str, 1, Len(prefix)) = prefix
IsUntracked(str) == \E i \in 1..Len(str) : str[i] = "?"

\* parseFloat on an operand string: an optional sign, then "Infinity" or the
\* longest decimal literal; NaN when there is neither
parseUnsigned(str) ==
  IF HasPrefix(str, InfinityText) THEN Inf(1) ELSE ParseFloat(str)
parseFloat(str) ==
  IF IsUntracked(str) THEN Unrep
  ELSE IF str # <<>> /\ Head(str) = "-" THEN Neg(parseUnsigned(Tail(str)))
  ELSE IF str # <<>> /\ Head(str) = "+" THEN parseUnsigned(Tail(str))
  ELSE parseUnsigned(str)

\* isNaN(result) ? "Error" : String(result)
displayOf(number) == IF IsNaN(number) THEN ErrorText ELSE String(number)

appendDigit(s, digit) ==
  IF s.shouldResetDisplay
    THEN [s EXCEPT !.currentOperand = <<digit>>, !.display = <<digit>>,
                   !.shouldResetDisplay = FALSE]
    ELSE LET newOperand == IF s.currentOperand = <<"0">> THEN <<digit>>
                           ELSE Append(s.currentOperand, digit)
         IN [s EXCEPT !.currentOperand = newOperand, !.display = newOperand]

appendDecimalAlways(s) ==
  IF s.shouldResetDisplay
    THEN [s EXCEPT !.currentOperand = <<"0", ".">>, !.display = <<"0", ".">>,
                   !.shouldResetDisplay = FALSE]
  ELSE [s EXCEPT !.currentOperand = Append(s.currentOperand, "."),
                 !.display = Append(s.currentOperand, ".")]
appendDecimal(s) ==
  IF s.shouldResetDisplay
    THEN [s EXCEPT !.currentOperand = <<"0", ".">>, !.display = <<"0", ".">>,
                   !.shouldResetDisplay = FALSE]
  ELSE IF \E i \in 1..Len(s.currentOperand) : s.currentOperand[i] = "." THEN s
  ELSE [s EXCEPT !.currentOperand = Append(s.currentOperand, "."),
                 !.display = Append(s.currentOperand, ".")]

\* the switch of evaluate
calculateUnguarded(op, prev, curr) ==
  CASE op = "+" -> Add(prev, curr)
    [] op = "-" -> Sub(prev, curr)
    [] op = "*" -> Mul(prev, curr)
    [] op = "/" -> Quot(prev, curr)
    [] op = "^" -> Pow(prev, curr)
calculate(op, prev, curr) ==
  CASE op = "+" -> Add(prev, curr)
    [] op = "-" -> Sub(prev, curr)
    [] op = "*" -> Mul(prev, curr)
    [] op = "/" -> IF IsZero(curr) THEN NaN ELSE Quot(prev, curr)
    [] op = "^" -> Pow(prev, curr)

resultStateLeftSet(display) == CalculatorState(display, display, display, "null", TRUE)
resultState(display) == CalculatorState(display, <<>>, display, "null", TRUE)
evaluate(s) ==
  IF s.operator = "null" \/ s.previousOperand = <<>> THEN s
  ELSE resultState(displayOf(calculate(s.operator, parseFloat(s.previousOperand),
                                       parseFloat(s.currentOperand))))

pending(s, op) ==
  [s EXCEPT !.operator = op, !.previousOperand = s.currentOperand,
            !.shouldResetDisplay = TRUE]
setOperatorNoEvaluate(s, op) == pending(s, op)
setOperator(s, op) ==
  IF s.operator # "null" /\ ~s.shouldResetDisplay
    THEN pending(evaluate(s), op)
    ELSE pending(s, op)

clear == createInitialState

toggleSign(s) ==
  IF s.currentOperand = <<"0">> THEN s
  ELSE LET newOperand == IF HasPrefix(s.currentOperand, <<"-">>)
                           THEN Tail(s.currentOperand)
                           ELSE <<"-">> \o s.currentOperand
       IN [s EXCEPT !.currentOperand = newOperand, !.display = newOperand]

shownOperandOnly(s, display) == [s EXCEPT !.currentOperand = display]
shown(s, display) == [s EXCEPT !.currentOperand = display, !.display = display]
percentage(s) == shown(s, String(Quot(parseFloat(s.currentOperand), FromInt(100))))

ScientificNames ==
  {<<"s", "i", "n">>, <<"c", "o", "s">>, <<"t", "a", "n">>, <<"l", "n">>,
   <<"l", "o", "g">>, <<"s", "q", "r", "t">>, <<"s", "q", "u", "a", "r", "e">>}
\* the switch of applyScientific
scientific(fn, value) ==
  CASE fn = <<"s", "i", "n">> -> MathSinTan(value)
    [] fn = <<"c", "o", "s">> -> MathCos(value)
    [] fn = <<"t", "a", "n">> -> MathSinTan(value)
    [] fn = <<"l", "n">> -> IF LeZero(value) THEN NaN ELSE MathLog(value)
    [] fn = <<"l", "o", "g">> -> IF LeZero(value) THEN NaN ELSE MathLog10(value)
    [] fn = <<"s", "q", "r", "t">> -> IF LtZero(value) THEN NaN ELSE MathSqrt(value)
    [] fn = <<"s", "q", "u", "a", "r", "e">> -> Mul(value, value)

applyScientific(s, fn) ==
  IF fn \notin ScientificNames THEN s
  ELSE [shown(s, displayOf(scientific(fn, parseFloat(s.currentOperand))))
          EXCEPT !.shouldResetDisplay = TRUE]

\* before any reducer function has been applied
NoAction == [type |-> "none", value |-> <<>>, before |-> createInitialState]
CalcIdle ==
  /\ state = createInitialState
  /\ lastAction = NoAction
  /\ steps = 0
  /\ earlier = NoAction

\* -------------------------------------------------------------- main.ts
\* The module state of main.ts and the text of the display element.
Main(st, active, hist, text) ==
  [state |-> st, activeOperator |-> active, history |-> hist, textContent |-> text]

MAX_HISTORY == 100

\* num.toExponential(4): the doubles the model tracks are all below 1e12, so
\* of the values that reach it only the infinities have a text here
toExponential(num) == IF num.k = "inf" THEN String(num) ELSE UntrackedText

EndsWith(str, suffix) ==
  /\ Len(str) >= Len(suffix)
  /\ SubSeq(str, Len(str) - Len(suffix) + 1, Len(str)) = suffix

\* Math.abs(num) >= 1e12, with 1e12 as 1000000 * 1000000
AtLeast1e12(num) ==
  \/ num.k = "inf"
  \/ num.k = "num" /\ ((num.n \div num.d) \div 1000000) >= 1000000

formatDisplay(value) ==
  IF value = ErrorText THEN value
  ELSE IF IsUntracked(value) THEN UntrackedText
  ELSE IF IsNaN(parseFloat(value)) THEN value
  ELSE IF EndsWith(value, <<".">>) \/ EndsWith(value, <<".", "0">>) THEN value
  ELSE IF AtLeast1e12(parseFloat(value)) THEN toExponential(parseFloat(value))
  ELSE value

\* updateDisplay, as far as the display element goes
updateDisplay(m) == [m EXCEPT !.textContent = formatDisplay(m.state.display)]

pushHistoryDropNewest(m) ==
  [m EXCEPT !.history = IF Len(m.history) + 1 > MAX_HISTORY
                          THEN m.history
                          ELSE Append(m.history, m.state)]
pushHistory(m) ==
  [m EXCEPT !.history = IF Len(m.history) + 1 > MAX_HISTORY
                          THEN Tail(Append(m.history, m.state))
                          ELSE Append(m.history, m.state)]

undoOldest(m) ==
  IF m.history = <<>> THEN m
  ELSE updateDisplay([m EXCEPT !.history = Tail(m.history),
                               !.state = Head(m.history),
                               !.activeOperator = Head(m.history).operator])
undo(m) ==
  IF m.history = <<>> THEN m
  ELSE updateDisplay([m EXCEPT !.history = SubSeq(m.history, 1, Len(m.history) - 1),
                               !.state = m.history[Len(m.history)],
                               !.activeOperator = m.history[Len(m.history)].operator])

\* the switch of handleAction; value is the text of the key
dispatch(m, action, value) ==
  CASE action = "digit" ->
         [m EXCEPT !.state = appendDigit(m.state, value[1]), !.activeOperator = "null"]
    [] action = "decimal" ->
         [m EXCEPT !.state = appendDecimal(m.state), !.activeOperator = "null"]
    [] action = "operator" ->
         [m EXCEPT !.state = setOperator(m.state, value[1]), !.activeOperator = value[1]]
    [] action = "equals" ->
         [m EXCEPT !.state = evaluate(m.state), !.activeOperator = "null"]
    [] action = "clear" ->
         [m EXCEPT !.state = clear, !.activeOperator = "null"]
    [] action = "toggle-sign" -> [m EXCEPT !.state = toggleSign(m.state)]
    [] action = "percentage" -> [m EXCEPT !.state = percentage(m.state)]
    [] action = "scientific" ->
         [m EXCEPT !.state = applyScientific(m.state, value), !.activeOperator = "null"]
    [] OTHER -> m

handleAction(m, action, value) ==
  IF action = "undo" THEN undo(m)
  ELSE updateDisplay(dispatch(pushHistory(m), action, value))

\* value.trim()
RECURSIVE trimStart(_)
trimStart(str) ==
  IF str # <<>> /\ Head(str) \in Whitespace THEN trimStart(Tail(str)) ELSE str
RECURSIVE trimEnd(_)
trimEnd(str) ==
  IF str # <<>> /\ str[Len(str)] \in Whitespace
    THEN trimEnd(SubSeq(str, 1, Len(str) - 1))
    ELSE str
trim(str) == trimEnd(trimStart(str))

\* the state the formula panel sets for a result
formulaShown(m, resultStr) ==
  [m EXCEPT !.textContent = formatDisplay(resultStr),
            !.state = [shown(m.state, resultStr) EXCEPT !.shouldResetDisplay = TRUE]]

\* the click handler of the formula panel's evaluate button, for the text
\* of the expression field and the values of the variable fields
formulaEval(m, text, variables) ==
  IF trim(text) = <<>> THEN m
  ELSE Bind(evaluateExpression(trim(text), variables), LAMBDA r :
         IF r.status = "value"
           THEN formulaShown(m, displayOf(r.value))
           ELSE [m EXCEPT !.textContent = ErrorText])

\* main.ts as it is loaded; updateDisplay has not run yet, and the display
\* element holds the "0" of the initial state
MainIdle ==
  /\ history = <<>>
  /\ activeOperator = "null"
  /\ textContent = <<"0">>
  /\ log = <<>>
  /\ historyBefore = <<>>
  /\ freed = 0

\* ------------------------------------------------- calls, step by step
\* tokenize, extractVariables and evaluateExpression as the steps one call
\* takes.  A call is [kind, expression, variables] with its position pc, the
\* stripped text expr, the locals of extractVariables (k, seen), the
\* pending parse functions (stack), what the parser does next (ctl) and, at
\* the end, what the call returned or threw (out).  A frame holds the token
\* list and the cursors i (tokenize) and pos (evaluateExpression).
NoFrame == [tokens |-> <<>>, i |-> 0, pos |-> 0]
\* the frame a call works on: its own
FrameShared(self) == 1
FrameOf(self) == self

Outcome(status, tokens, names, value, error) ==
  [status |-> status, tokens |-> tokens, names |-> names, value |-> value,
   error |-> error]
NoOutcome == Outcome("none", <<>>, <<>>, NoValue, NoError)
Control(mode, fn, val) == [mode |-> mode, fn |-> fn, val |-> val]
\* a parse function waiting for the one it called: which one and where (k),
\* its left operand or base (val), its operator (op), its function (name),
\* and the cursor at which the one it called began (at)
Pending(k, val, op, name) ==
  [k |-> k, val |-> val, op |-> op, name |-> name, at |-> 0]
NewCall(kind, expression, variables) ==
  [kind |-> kind, expression |-> expression, variables |-> variables,
   pc |-> "start", expr |-> <<>>, k |-> 0, seen |-> <<>>, stack |-> <<>>,
   ctl |-> Control("none", "", NoValue), out |-> NoOutcome, overlapped |-> FALSE]

Running(c, f) == [call |-> c, frame |-> f]
Done(c, f, out) == Running([c EXCEPT !.pc = "done", !.out = out], f)
Goto(c, f, fn) == Running([c EXCEPT !.ctl = Control("call", fn, NoValue)], f)
Return(c, f, v) == Running([c EXCEPT !.ctl = Control("ret", "", v)], f)
Push(c, p) == [c EXCEPT !.stack = Append(@, p)]
\* the parse function p calls fn, which begins at the cursor of f
Invoke(c, p, f, fn) == Goto(Push(c, [p EXCEPT !.at = f.pos]), f, fn)
Pop(c) == [c EXCEPT !.stack = SubSeq(@, 1, Len(@) - 1)]
\* consume()
ConsumeNone(f) == f
Consume(f) == [f EXCEPT !.pos = @ + 1]

\* const tokens = []; let i = 0; const expr = expression.replace(...)
beginStep(c, f) ==
  Running([c EXCEPT !.pc = "scan", !.expr = StripWhitespace(c.expression)],
          [f EXCEPT !.tokens = <<>>, !.i = 1])

\* tokenize threw: it propagates, except through the catch of
\* extractVariables
lexerThrow(c, f, error) ==
  CASE c.kind = "tokenize" -> Done(c, f, Outcome("throw", <<>>, <<>>, NoValue, error))
    [] c.kind = "extractVariables" -> Done(c, f, Outcome("ok", <<>>, <<>>, NoValue, NoError))
    [] c.kind = "evaluateExpression" -> Done(c, f, Outcome("error", <<>>, <<>>, NoValue, error))

\* tokenize returned its token list
lexerReturn(c, f) ==
  CASE c.kind = "tokenize" -> Done(c, f, Outcome("ok", f.tokens, <<>>, NoValue, NoError))
    [] c.kind = "extractVariables" ->
         Running([c EXCEPT !.pc = "collect", !.k = 1, !.seen = <<>>], f)
    [] c.kind = "evaluateExpression" ->
         Running([c EXCEPT !.pc = "parse", !.stack = <<>>,
                           !.ctl = Control("call", "AddSub", NoValue)],
                 [f EXCEPT !.pos = 0])

\* one iteration of the while loop of tokenize
pushToken(f, token, next) == [f EXCEPT !.tokens = Append(@, token), !.i = next]
scanStep(c, f) ==
  IF f.i > Len(c.expr) THEN lexerReturn(c, f)
  ELSE LET ch == c.expr[f.i] IN
    IF IsNumberChar(ch)
      THEN LET j == NumberEnd(c.expr, f.i)
           IN Running(c, pushToken(f, NumberToken(ParseFloat(SubSeq(c.expr, f.i, j - 1))), j))
    ELSE IF IsNameStart(ch)
      THEN LET j == NameEnd(c.expr, f.i)
           IN Running(c, pushToken(f, NameToken(SubSeq(c.expr, f.i, j - 1)), j))
    ELSE IF ch \in OperatorChars
      THEN Running(c, pushToken(f, OperatorToken(ch), f.i + 1))
    ELSE IF ch = "(" \/ ch = ")"
      THEN Running(c, pushToken(f, ParenToken(ch), f.i + 1))
    ELSE lexerThrow(c, f, Error("Unexpected character", <<ch>>))

\* one iteration of the for loop of extractVariables, or its return
collectStep(c, f) ==
  IF c.k > Len(f.tokens)
    THEN Done(c, f, Outcome("ok", <<>>, SortNames(c.seen), NoValue, NoError))
  ELSE Running([c EXCEPT !.k = @ + 1,
                         !.seen = IF f.tokens[c.k].type = "variable"
                                    THEN AddName(@, f.tokens[c.k].name) ELSE @], f)

parseThrow(c, f, msg, detail) ==
  Done(c, f, Outcome("error", <<>>, <<>>, NoValue, Error(msg, detail)))

\* the entry of a parse function, up to the first call it makes
atomStep(c, f) ==
  IF ~HasToken(f.tokens, f.pos) THEN parseThrow(c, f, "Unexpected end of expression", <<>>)
  ELSE LET token == Peek(f.tokens, f.pos) IN
    CASE token.type = "number" -> Return(c, Consume(f), token.value)
      [] token.type = "variable" ->
           IF token.name \notin DOMAIN c.variables
             THEN parseThrow(c, Consume(f), "Undefined variable", token.name)
             ELSE Return(c, Consume(f), c.variables[token.name])
      [] token.type = "function" ->
           IF ~PeekIsParen(f.tokens, f.pos + 1, "(")
             THEN parseThrow(c, Consume(f), "Expected ( after function", token.name)
             ELSE Invoke(c, Pending("FunctionArg", NoValue, "", token.name),
                       Consume(Consume(f)), "AddSub")
      [] token.type = "paren" /\ token.value = "(" ->
           Invoke(c, Pending("ParenClose", NoValue, "", <<>>), Consume(f), "AddSub")
      [] OTHER -> parseThrow(c, f, "Unexpected token", <<token.value>>)

enterStep(c, f) ==
  CASE c.ctl.fn = "AddSub" -> Invoke(c, Pending("AddSubLeft", NoValue, "", <<>>), f, "Term")
    [] c.ctl.fn = "Term" -> Invoke(c, Pending("TermLeft", NoValue, "", <<>>), f, "Power")
    [] c.ctl.fn = "Power" -> Invoke(c, Pending("PowerBase", NoValue, "", <<>>), f, "Unary")
    [] c.ctl.fn = "Unary" ->
         IF PeekIsOperator(f.tokens, f.pos, {"-"})
           THEN Invoke(c, Pending("Negate", NoValue, "", <<>>), Consume(f), "Unary")
         ELSE IF PeekIsOperator(f.tokens, f.pos, {"+"})
           THEN Goto(c, Consume(f), "Unary")
         ELSE Goto(c, f, "Atom")
    [] c.ctl.fn = "Atom" -> atomStep(c, f)

\* the test of the while loop of parseAddSub / parseTerm with left at hand
addSubTest(c, f, left) ==
  IF PeekIsOperator(f.tokens, f.pos, {"+", "-"})
    THEN Invoke(c, Pending("AddSubRight", left, Peek(f.tokens, f.pos).value, <<>>),
              Consume(f), "Term")
    ELSE Return(c, f, left)
termTest(c, f, left) ==
  IF PeekIsOperator(f.tokens, f.pos, {"*", "/"})
    THEN Invoke(c, Pending("TermRight", left, Peek(f.tokens, f.pos).value, <<>>),
              Consume(f), "Power")
    ELSE Return(c, f, left)

\* the end of evaluateExpression, with the value of parseAddSub at hand
finishStep(c, f, v) ==
  IF f.pos < Len(f.tokens)
    THEN parseThrow(c, f, "Unexpected tokens after expression", <<>>)
    ELSE Done(c, f, Outcome("value", <<>>, <<>>, v, NoError))

\* a parse function returned v to the pending function top
resumeStep(c, f, top, v) ==
  CASE top.k = "AddSubLeft" -> addSubTest(c, f, v)
    [] top.k = "AddSubRight" ->
         addSubTest(c, f, IF top.op = "+" THEN Add(top.val, v) ELSE Sub(top.val, v))
    [] top.k = "TermLeft" -> termTest(c, f, v)
    [] top.k = "TermRight" ->
         termTest(c, f, IF top.op = "*" THEN Mul(top.val, v) ELSE Divide(top.val, v))
    [] top.k = "PowerBase" ->
         IF PeekIsOperator(f.tokens, f.pos, {"^"})
           THEN Invoke(c, Pending("PowerExp", v, "^", <<>>), Consume(f), "Power")
           ELSE Return(c, f, v)
    [] top.k = "PowerExp" -> Return(c, f, Pow(top.val, v))
    [] top.k = "Negate" -> Return(c, f, Neg(v))
    [] top.k = "FunctionArg" ->
         IF ~PeekIsParen(f.tokens, f.pos, ")")
           THEN parseThrow(c, f, "Expected ) after function argument", <<>>)
           ELSE Return(c, Consume(f), applyFunction(top.name, v))
    [] top.k = "ParenClose" ->
         IF ~PeekIsParen(f.tokens, f.pos, ")")
           THEN parseThrow(c, f, "Mismatched parentheses", <<>>)
           ELSE Return(c, Consume(f), v)

parseStep(c, f) ==
  IF c.ctl.mode = "call" THEN enterStep(c, f)
  ELSE IF c.stack = <<>> THEN finishStep(c, f, c.ctl.val)
  ELSE resumeStep(Pop(c), f, c.stack[Len(c.stack)], c.ctl.val)

\* no call in progress
CallsIdle == calls = <<>> /\ frames = <<>>

\* ------------------------------------------------------- state machine
\* before tokenize / extractVariables has been called
NoLex == [status |-> "none", tokens |-> <<>>, error |-> NoError]
NoNames == [status |-> "none", names |-> <<>>]

NoResult == [status |-> "none", value |-> NoValue, error |-> NoError,
             tokens |-> <<>>, pos |-> 0, trace |-> <<>>]

Init ==
  /\ \/ formulaExpression \in LexInputs /\ values \in VarMaps
     \/ formulaExpression \in TemplateInputs /\ values = BoundMap
  /\ \E r \in {evaluateExpression(formulaExpression, values)} : Tracked(r)
  /\ pc = "ready"
  /\ result = NoResult
  /\ lexResult = NoLex
  /\ extracted = NoNames
  /\ StoreIdle
  /\ CalcIdle
  /\ CallsIdle
  /\ MainIdle

\* The formula panel calls evaluateExpression(expr, values).
Evaluate ==
  /\ pc = "ready"
  /\ result' = evaluateExpression(formulaExpression, values)
  /\ pc' = "evaluated"
  /\ UNCHANGED <<formulaExpression, values>>
  /\ UNCHANGED <<lexVars, storeVars, calcVars, callVars, mainVars>>

Next == Evaluate

Spec == Init /\ [][Next]_vars

\* -------------------------------------------------------------- claims
Evaluated == pc = "evaluated"

\* The shape of the call's token list: "n" for an operand (a number or a
\* bound variable), "u" for an unbound variable, "f" for a function name, and
\* the character itself for an operator or a parenthesis.
Sym(t) ==
  IF t.type = "number" THEN "n"
  ELSE IF t.type = "variable" THEN (IF t.name \in DOMAIN values THEN "n" ELSE "u")
  ELSE IF t.type = "function" THEN "f"
  ELSE t.value
Shape == [i \in 1..Len(result.tokens) |-> Sym(result.tokens[i])]
\* The value of the operand at index i of the token list.
V(i) ==
  LET t == result.tokens[i]
  IN IF t.type = "number" THEN t.value ELSE values[t.name]

\* The arithmetic a binary operator stands for.
BinaryValue(op, left, right) ==
  CASE op = "+" -> Add(left, right)
    [] op = "-" -> Sub(left, right)
    [] op = "*" -> Mul(left, right)
    [] op = "/" -> IF IsZero(right) THEN NaN ELSE Quot(left, right)
    [] op = "^" -> Pow(left, right)

Returns(v) == result.status = "value" /\ result.value = v

\* C1: exponentiation is right-associative: "a ^ b ^ c" evaluates to
\* a ^ (b ^ c), for all operands a, b, c.
C1_PowerRightAssociative ==
  (Evaluated /\ Shape = <<"n", "^", "n", "^", "n">>)
    => Returns(Pow(V(1), Pow(V(3), V(5))))

\* "2 ^ 3 ^ 2" has been evaluated to 512 (and not to 64).
C1_Witness ==
  /\ Evaluated
  /\ formulaExpression = <<"2", "^", "3", "^", "2">>
  /\ Returns(FromInt(512))

\* C2: + and - are left-associative among themselves, and so are * and /:
\* "a op1 b op2 c" evaluates to (a op1 b) op2 c when op1 and op2 are both
\* additive or both multiplicative.
C2_LeftAssociative ==
  Evaluated =>
    \A level \in {{"+", "-"}, {"*", "/"}} : \A op1 \in level, op2 \in level :
      Shape = <<"n", op1, "n", op2, "n">>
        => Returns(BinaryValue(op2, BinaryValue(op1, V(1), V(3)), V(5)))

\* "3 - 2 - 1" has been evaluated to 0 (and not to 3 - (2 - 1) = 2).
C2_Witness ==
  /\ Evaluated
  /\ formulaExpression = <<"3", "-", "2", "-", "1">>
  /\ Returns(Zero(1))

\* C3: * and / bind tighter than + and -, and a parenthesized sub-expression
\* is evaluated as a unit: "a + b * c" is a + (b * c), "a * b + c" is
\* (a * b) + c, "(a op1 b) op2 c" is (a op1 b) op2 c and "a op1 (b op2 c)" is
\* a op1 (b op2 c) for all operators.
C3_PrecedenceAndParentheses ==
  Evaluated =>
    /\ \A add \in {"+", "-"}, mul \in {"*", "/"} :
         /\ Shape = <<"n", add, "n", mul, "n">>
              => Returns(BinaryValue(add, V(1), BinaryValue(mul, V(3), V(5))))
         /\ Shape = <<"n", mul, "n", add, "n">>
              => Returns(BinaryValue(add, BinaryValue(mul, V(1), V(3)), V(5)))
    /\ \A op1 \in OperatorChars, op2 \in OperatorChars :
         /\ Shape = <<"(", "n", op1, "n", ")", op2, "n">>
              => Returns(BinaryValue(op2, BinaryValue(op1, V(2), V(4)), V(7)))
         /\ Shape = <<"n", op1, "(", "n", op2, "n", ")">>
              => Returns(BinaryValue(op1, V(1), BinaryValue(op2, V(4), V(6))))

\* "2 + 3 * 3" has been evaluated to 11 (and not to (2 + 3) * 3 = 15).
C3_Witness ==
  /\ Evaluated
  /\ formulaExpression = <<"2", "+", "3", "*", "3">>
  /\ Returns(FromInt(11))

\* C4: a unary sign binds tighter than ^ on the base: "-a ^ b" evaluates to
\* (-a) ^ b.
C4_UnaryBindsTighterThanPower ==
  (Evaluated /\ Shape = <<"-", "n", "^", "n">>)
    => Returns(Pow(Neg(V(2)), V(4)))

\* "-2^2" has been evaluated to 4 (and not to -(2^2) = -4).
C4_Witness ==
  /\ Evaluated
  /\ formulaExpression = <<"-", "2", "^", "2">>
  /\ Returns(FromInt(4))

\* The operations of the call that are arithmetic domain failures.
IsDomainFailure(e) ==
  \/ e.op = <<"/">> /\ IsZero(e.args[2])
  \/ e.op = <<"s", "q", "r", "t">> /\ LtZero(e.args[1])
  \/ e.op \in {<<"l", "n">>, <<"l", "o", "g">>} /\ LeZero(e.args[1])

\* C5: arithmetic domain failures yield NaN and are never raised: every
\* division by a divisor that evaluates to 0, every sqrt of a value < 0 and
\* every ln or log of a value <= 0 carried out by the call has the result NaN,
\* and the calls "a / 0", "a / 0 op c", "sqrt(a)" with a < 0 and "ln(a)",
\* "log(a)" with a <= 0 return NaN rather than raise.
C5_DomainFailuresYieldNaN ==
  Evaluated =>
    /\ \A i \in 1..Len(result.trace) :
         IsDomainFailure(result.trace[i]) => IsNaN(result.trace[i].out)
    /\ (Shape = <<"n", "/", "n">> /\ IsZero(V(3))) => Returns(NaN)
    /\ \A op \in {"+", "-", "*", "/"} :
         (Shape = <<"n", "/", "n", op, "n">> /\ IsZero(V(3))) => Returns(NaN)
    /\ (Shape = <<"f", "(", "n", ")">>
          /\ \/ result.tokens[1].name = <<"s", "q", "r", "t">> /\ LtZero(V(3))
             \/ result.tokens[1].name \in {<<"l", "n">>, <<"l", "o", "g">>} /\ LeZero(V(3)))
         => Returns(NaN)
    /\ (Shape = <<"f", "(", "-", "n", ")">>
          /\ \/ result.tokens[1].name = <<"s", "q", "r", "t">> /\ LtZero(Neg(V(4)))
             \/ result.tokens[1].name \in {<<"l", "n">>, <<"l", "o", "g">>} /\ LeZero(Neg(V(4))))
         => Returns(NaN)

\* A call that divided by zero has returned normally.
C5_Witness ==
  /\ Evaluated
  /\ result.status = "value"
  /\ \E i \in 1..Len(result.trace) :
       result.trace[i].op = <<"/">> /\ IsZero(result.trace[i].args[2])

\* C6: NaN propagates through every later operation: an operation of the
\* call with a NaN operand has the result NaN, and a call that met a NaN
\* (a literal, or the result of an operation) and returns, returns NaN.
C6_NaNPropagates ==
  Evaluated =>
    /\ \A i \in 1..Len(result.trace) :
         (\E j \in 1..Len(result.trace[i].args) : IsNaN(result.trace[i].args[j]))
           => IsNaN(result.trace[i].out)
    /\ (result.status = "value"
          /\ \/ \E i \in 1..Len(result.trace) : IsNaN(result.trace[i].out)
             \/ \E i \in 1..Len(result.tokens) : Sym(result.tokens[i]) = "n" /\ IsNaN(V(i)))
         => IsNaN(result.value)

\* The call lexed its input (what it threw, if anything, the parser threw).
Lexed == Evaluated /\ tokenize(formulaExpression).status = "ok"
\* The last token the parser consumed, when there is one.
Consumed == result.pos >= 1
LastConsumed == result.tokens[result.pos]
IsParen(t, ch) == t.type = "paren" /\ t.value = ch
\* The token ends an Atom: a number, a bound variable or ")".
EndsAtom(t) == Sym(t) = "n" \/ IsParen(t, ")")

RECURSIVE OpenBefore(_, _, _)
OpenBefore(tokens, i, depth) ==
  IF i = 0 THEN 0
  ELSE IF IsParen(tokens[i], ")") THEN OpenBefore(tokens, i - 1, depth + 1)
  ELSE IF IsParen(tokens[i], "(")
    THEN (IF depth = 0 THEN i ELSE OpenBefore(tokens, i - 1, depth - 1))
  ELSE OpenBefore(tokens, i - 1, depth)

\* The parentheses of tokens[i..] match, depth of them being open before.
RECURSIVE ParensMatch(_, _, _)
ParensMatch(tokens, i, depth) ==
  IF i > Len(tokens) THEN depth = 0
  ELSE IF IsParen(tokens[i], "(") THEN ParensMatch(tokens, i + 1, depth + 1)
  ELSE IF IsParen(tokens[i], ")")
    THEN depth > 0 /\ ParensMatch(tokens, i + 1, depth - 1)
  ELSE ParensMatch(tokens, i + 1, depth)

\* The parser stopped behind a complete sub-expression that stands inside a
\* "(" not yet closed: open is the index of that "(".
MissingClose(open) ==
  /\ Lexed /\ result.status = "error" /\ Consumed /\ EndsAtom(LastConsumed)
  /\ open = OpenBefore(result.tokens, result.pos, 0)
  /\ open > 0
OpensCall(open) == open > 1 /\ result.tokens[open - 1].type = "function"

\* What every reading of C8 shares: a Function token not followed by "("
\* raises the expected-open-paren error, and no value is returned for
\* unbalanced parentheses.
ParenErrorsCommon ==
  Lexed =>
    /\ (Consumed /\ LastConsumed.type = "function")
         => /\ result.status = "error"
            /\ result.error = Error("Expected ( after function", LastConsumed.name)
    /\ (\E i \in 1..Len(result.tokens) :
          /\ result.tokens[i].type = "function"
          /\ (i = Len(result.tokens) \/ ~IsParen(result.tokens[i + 1], "(")))
         => result.status = "error"
    /\ ~ParensMatch(result.tokens, 1, 0) => result.status = "error"

\* C8 as claimed: a function argument and a parenthesized sub-expression
\* that are not followed by ")" raise the same mismatched-parentheses error.
C8_SameMismatchError ==
  /\ ParenErrorsCommon
  /\ \A open \in 1..Len(result.tokens) :
       MissingClose(open) => result.error = Error("Mismatched parentheses", <<>>)

\* C8 as the code has it: a parenthesized sub-expression not followed by ")"
\* raises "Mismatched parentheses", a function argument not followed by ")"
\* raises "Expected ) after function argument".
C8_ParenErrors ==
  /\ ParenErrorsCommon
  /\ \A open \in 1..Len(result.tokens) :
       MissingClose(open) =>
         result.error = IF OpensCall(open)
                          THEN Error("Expected ) after function argument", <<>>)
                          ELSE Error("Mismatched parentheses", <<>>)

\* "sqrt(2" has raised the error of a function argument without its ")".
C8_Witness ==
  /\ Evaluated
  /\ formulaExpression = <<"s", "q", "r", "t", "(", "2">>
  /\ result.status = "error"
  /\ result.error = Error("Expected ) after function argument", <<>>)

\* What every reading of C9 shares: a value is returned only when every
\* token was consumed, and a call whose top-level expression ended before the
\* last token raised the trailing-tokens error.
TrailingTokensCommon ==
  Lexed =>
    /\ result.status = "value" => result.pos = Len(result.tokens)
    /\ (Consumed /\ EndsAtom(LastConsumed) /\ result.pos < Len(result.tokens)
          /\ OpenBefore(result.tokens, result.pos, 0) = 0)
         => /\ result.status = "error"
            /\ result.error = Error("Unexpected tokens after expression", <<>>)

\* C9 as claimed, with its examples: "2 3" and "2 )" raise the
\* trailing-tokens error.
C9_TrailingTokensExamples ==
  /\ TrailingTokensCommon
  /\ (Evaluated /\ formulaExpression \in {<<"2", " ", "3">>, <<"2", " ", ")">>})
       => /\ result.status = "error"
          /\ result.error = Error("Unexpected tokens after expression", <<>>)

\* C9 as the code has it: whitespace is removed before lexing, so that "2 3"
\* is the one numeral 23 and returns 23; "2 )" and "2 x" leave a token behind
\* and raise the trailing-tokens error.
C9_TrailingTokens ==
  /\ TrailingTokensCommon
  /\ (Evaluated /\ formulaExpression \in {<<"2", " ", ")">>, <<"2", " ", "x">>})
       => /\ result.status = "error"
          /\ result.error = Error("Unexpected tokens after expression", <<>>)
  /\ (Evaluated /\ formulaExpression = <<"2", " ", "3">>) => Returns(FromInt(23))

\* "2 )" has raised the trailing-tokens error with one token consumed.
C9_Witness ==
  /\ Evaluated
  /\ formulaExpression = <<"2", " ", ")">>
  /\ result.pos = 1
  /\ result.error = Error("Unexpected tokens after expression", <<>>)

\* The tokens end where an Atom is expected: there is none, or the last one
\* is an operator or "(".
EndsOpen(tokens) ==
  \/ tokens = <<>>
  \/ tokens[Len(tokens)].type = "operator"
  \/ IsParen(tokens[Len(tokens)], "(")

\* C10: when the tokens are exhausted where an Atom is expected (no token at
\* all, or the parser has consumed a last token that is an operator or "("),
\* the call raises the unexpected-end error; no expression that ends in an
\* operator or "(" returns a value.
C10_UnexpectedEnd ==
  Lexed =>
    /\ EndsOpen(result.tokens) => result.status = "error"
    /\ (EndsOpen(result.tokens) /\ result.pos = Len(result.tokens))
         => result.error = Error("Unexpected end of expression", <<>>)

\* "2 +" has raised the unexpected-end error.
C10_Witness ==
  /\ Evaluated
  /\ formulaExpression = <<"2", "+">>
  /\ result.status = "error"
  /\ result.error = Error("Unexpected end of expression", <<>>)

\* ================================================= lexer and variables
\* Input family of the lexer: every concatenation of at most MaxLexemes of
\* these lexemes.  Letters that spell the function name "ln" when adjacent,
\* an upper-case letter and '_' for the sort order, numerals with several
\* dots, and two characters tokenize does not know.
LexerLexemes == {<<"x">>, <<"l">>, <<"n">>, <<"Z">>, <<"_">>, <<"s", "i", "n">>,
                 <<"5">>, <<".">>, <<".", "5">>, <<"+">>, <<"(">>, <<" ">>,
                 <<"@">>, <<"$">>}
LexerInputs ==
  UNION {{Flatten(ls) : ls \in [1..len -> LexerLexemes]} : len \in 0..MaxLexemes}

InitLex ==
  /\ formulaExpression \in LexerInputs
  /\ values = EmptyMap
  /\ \E r \in {evaluateExpression(formulaExpression, values)} : Tracked(r)
  /\ pc = "ready"
  /\ result = NoResult
  /\ lexResult = NoLex
  /\ extracted = NoNames
  /\ StoreIdle
  /\ CalcIdle
  /\ CallsIdle
  /\ MainIdle

\* a direct call of tokenize on the text
Tokenize ==
  /\ pc = "ready"
  /\ lexResult' = tokenize(formulaExpression)
  /\ pc' = "tokenized"
  /\ UNCHANGED <<formulaExpression, values, result, extracted, storeVars, calcVars, callVars, mainVars>>

\* the input handler of the formula field calls extractVariables on the text
ExtractVariables ==
  /\ pc = "tokenized"
  /\ extracted' = extractVariables(formulaExpression)
  /\ pc' = "extracted"
  /\ UNCHANGED <<formulaExpression, values, result, lexResult, storeVars, calcVars, callVars, mainVars>>

\* the evaluate button, with no variable bound
EvaluateText ==
  /\ pc = "extracted"
  /\ result' = evaluateExpression(formulaExpression, values)
  /\ pc' = "evaluated"
  /\ UNCHANGED <<formulaExpression, values, lexResult, extracted, storeVars, calcVars, callVars, mainVars>>

NextLex == Tokenize \/ ExtractVariables \/ EvaluateText

SpecLex == InitLex /\ [][NextLex]_vars

\* --------------------------------------------------------------- C11
\* the text with its white space removed, and the characters tokenize knows
IsSpace(c) == c \in {" ", "\t", "\n"}
Text == SelectSeq(formulaExpression, LAMBDA c : ~IsSpace(c))
Known(c) ==
  \/ c \in Digits \/ c = "."
  \/ c \in LowerLetters \/ c \in UpperLetters \/ c = "_"
  \/ c \in {"+", "-", "*", "/", "^"}
  \/ c \in {"(", ")"}
FunctionNames ==
  {<<"s", "i", "n">>, <<"c", "o", "s">>, <<"t", "a", "n">>, <<"l", "n">>,
   <<"l", "o", "g">>, <<"s", "q", "r", "t">>, <<"a", "b", "s">>}
IsVariableAt(i) == lexResult.tokens[i].type = "variable"
IsFunctionAt(i) == lexResult.tokens[i].type = "function"

\* C11: when tokenize succeeds, no Variable token is named like a function,
\* every Function token is named like a function, and a text that is exactly
\* a function name is the single Function token of that name.
C11_FunctionNamesAreFunctionTokens ==
  lexResult.status = "ok" =>
    /\ \A i \in 1..Len(lexResult.tokens) :
         /\ IsVariableAt(i) => lexResult.tokens[i].name \notin FunctionNames
         /\ IsFunctionAt(i) => lexResult.tokens[i].name \in FunctionNames
    /\ Text \in FunctionNames =>
         lexResult.tokens = <<[type |-> "function", name |-> Text]>>
    /\ \A f \in FunctionNames :
         (Len(Text) > Len(f) /\ SubSeq(Text, 1, Len(f)) = f /\ Text[Len(f) + 1] = "(")
           => lexResult.tokens[1] = [type |-> "function", name |-> f]

\* a function name, then a variable
C11_Witness ==
  /\ lexResult.status = "ok"
  /\ Len(lexResult.tokens) = 3
  /\ IsFunctionAt(1)
  /\ IsVariableAt(3)

\* --------------------------------------------------------------- C12
UnknownAt == {i \in 1..Len(Text) : ~Known(Text[i])}
Leftmost(S) == CHOOSE i \in S : \A j \in S : i <= j

\* C12: tokenize raises "Unexpected character" exactly when the text without
\* white space holds a character it does not know; the error names the
\* leftmost such character and no tokens are returned.
C12_UnexpectedCharacter ==
  lexResult.status # "none" =>
    /\ lexResult.status = "throw" <=> UnknownAt # {}
    /\ UnknownAt # {} =>
         /\ lexResult.error = [msg |-> "Unexpected character",
                               detail |-> <<Text[Leftmost(UnknownAt)]>>]
         /\ lexResult.tokens = <<>>

\* known text, then two different unknown characters
C12_Witness ==
  /\ lexResult.status = "throw"
  /\ Cardinality(UnknownAt) = 2
  /\ Leftmost(UnknownAt) = 2
  /\ Text[2] # Text[3]

\* --------------------------------------------------------------- C13
VariableNames == {lexResult.tokens[i].name : i \in {j \in 1..Len(lexResult.tokens) : IsVariableAt(j)}}
\* a comes before b in lexicographic order of code units
Precedes(a, b) ==
  \E k \in 1..Len(b) :
    /\ \A i \in 1..(k - 1) : i <= Len(a) /\ a[i] = b[i]
    /\ \/ Len(a) = k - 1
       \/ Len(a) >= k /\ CodeUnitRank(a[k]) < CodeUnitRank(b[k])

\* C13: for a text that lexes, extractVariables returns the names of its
\* Variable tokens, each once, in ascending lexicographic order, and none of
\* them is a function name or starts like a number.
C13_SortedVariableNames ==
  (lexResult.status = "ok" /\ extracted.status # "none") =>
    /\ extracted.status = "ok"
    /\ {extracted.names[i] : i \in 1..Len(extracted.names)} = VariableNames
    /\ \A i, j \in 1..Len(extracted.names) :
         i < j => Precedes(extracted.names[i], extracted.names[j])
    /\ \A i \in 1..Len(extracted.names) :
         /\ extracted.names[i] \notin FunctionNames
         /\ extracted.names[i] # <<>>
         /\ extracted.names[i][1] \notin Digits \cup {"."}

\* two variables that occur in descending order
C13_Witness ==
  /\ lexResult.status = "ok"
  /\ Len(lexResult.tokens) = 3
  /\ IsVariableAt(1) /\ IsVariableAt(3)
  /\ Len(extracted.names) = 2
  /\ extracted.names[2] = lexResult.tokens[1].name

\* --------------------------------------------------------------- C14
\* C14: extractVariables does not raise, and returns the empty sequence for
\* every text on which tokenize raises.
C14_ExtractVariablesNeverRaises ==
  extracted.status # "none" =>
    /\ extracted.status = "ok"
    /\ lexResult.status = "throw" => extracted.names = <<>>

\* tokenize raised after a valid variable name
C14_Witness ==
  /\ lexResult.status = "throw"
  /\ Leftmost(UnknownAt) > 1
  /\ Text[1] \in LowerLetters
  /\ extracted = [status |-> "ok", names |-> <<>>]

\* --------------------------------------------------------------- C15
DotsAt == {i \in 1..Len(Text) : Text[i] = "."}
IsMultiDot ==
  /\ \A i \in 1..Len(Text) : Text[i] \in Digits \cup {"."}
  /\ Cardinality(DotsAt) >= 2
SecondDot == Leftmost(DotsAt \ {Leftmost(DotsAt)})
\* the decimal literal in front of the second '.', and the number it writes
Literal == SubSeq(Text, 1, SecondDot - 1)
LiteralDigits == SelectSeq(Literal, LAMBDA c : c # ".")
LiteralValue ==
  Mk(1, DigitsValue(LiteralDigits, 1, Len(LiteralDigits) + 1, 0),
     Pow10(Len(Literal) - Leftmost(DotsAt)))
OneNumberToken ==
  /\ lexResult.status = "ok"
  /\ Len(lexResult.tokens) = 1
  /\ lexResult.tokens[1].type = "number"

StoreNames == {<<"a">>, <<"b">>, <<"\"", "\\">>}
StoreExpressions == {<<"x", "+", "Z">>, <<"5">>}
\* the Formula the save handler builds from a name and an expression
StoreFormulas ==
  {Formula(n, e, extractVariables(e).names) : n \in StoreNames, e \in StoreExpressions}

\* Largest number of formulas in a list found in storage at the start.
MaxStored == 2
StoredLists == UNION {[1..len -> StoreFormulas] : len \in 0..MaxStored}
\* texts that are not JSON: the text of the storage test, and every proper
\* prefix of a stored list
NotJson == <<"n", "o", "t", "-", "j", "s", "o", "n">>
CutText ==
  JSONstringify(<<Formula(<<"\"", "\\">>, <<"x", "+", "Z">>, <<<<"Z">>, <<"x">>>>)>>)
CorruptTexts == {NotJson} \cup {SubSeq(CutText, 1, len) : len \in 1..(Len(CutText) - 1)}

EngineIdle ==
  /\ formulaExpression = <<>>
  /\ values = EmptyMap
  /\ pc = "idle"
  /\ result = NoResult
  /\ lexResult = NoLex
  /\ extracted = NoNames

\* storage as a fresh browser profile has it
InitStore ==
  /\ EngineIdle
  /\ localStorage = NoItem
  /\ loaded = NoLoad
  /\ lastCall = NoCall
  /\ CalcIdle
  /\ CallsIdle
  /\ MainIdle

\* storage as any earlier session, or anything else, may have left it
InitStoreAny ==
  /\ EngineIdle
  /\ localStorage \in {NoItem, Item(<<>>)}
                       \cup {Item(t) : t \in CorruptTexts}
                       \cup {Item(JSONstringify(l)) : l \in StoredLists}
  /\ loaded = NoLoad
  /\ lastCall = NoCall
  /\ CalcIdle
  /\ CallsIdle
  /\ MainIdle

StorageCall(op, status, formula, name) ==
  [op |-> op, status |-> status, formula |-> formula, name |-> name,
   before |-> localStorage]

SaveFormula ==
  \E f \in StoreFormulas : \E r \in {saveFormula(localStorage, f)} :
    /\ localStorage' = r.item
    /\ lastCall' = StorageCall("saveFormula", r.status, f, f.name)
    /\ loaded' = NoLoad
    /\ UNCHANGED <<engineVars, lexVars, calcVars, callVars, mainVars>>

DeleteFormula ==
  \E n \in StoreNames : \E r \in {deleteFormula(localStorage, n)} :
    /\ localStorage' = r.item
    /\ lastCall' = StorageCall("deleteFormula", r.status, NoFormula, n)
    /\ loaded' = NoLoad
    /\ UNCHANGED <<engineVars, lexVars, calcVars, callVars, mainVars>>

LoadFormulas ==
  \E r \in {loadFormulas(localStorage)} :
    /\ localStorage' = r.item
    /\ loaded' = [status |-> r.status, formulas |-> r.formulas]
    /\ lastCall' = StorageCall("loadFormulas", r.status, NoFormula, <<>>)
    /\ UNCHANGED <<engineVars, lexVars, calcVars, callVars, mainVars>>

NextStore == SaveFormula \/ DeleteFormula \/ LoadFormulas

SpecStore == InitStore /\ [][NextStore]_vars
SpecStoreAny == InitStoreAny /\ [][NextStore]_vars

\* --------------------------------------------------------------- C18
Named(list, name) == {i \in 1..Len(list) : list[i].name = name}
Others(list, name) == SelectSeq(list, LAMBDA f : f.name # name)

\* C18: from empty storage, the stored list never holds two formulas of one
\* name; right after saveFormula(f) it holds exactly one entry named f.name,
\* which equals f, and the entries of other names are as before.
C18_SaveIsUpsert ==
  \E now \in {loadFormulas(localStorage).formulas} :
  \E was \in {loadFormulas(lastCall.before).formulas} :
    /\ \A i, j \in 1..Len(now) : now[i].name = now[j].name => i = j
    /\ lastCall.op = "saveFormula" =>
         /\ lastCall.status = "ok"
         /\ Cardinality(Named(now, lastCall.name)) = 1
         /\ \A i \in Named(now, lastCall.name) : now[i] = lastCall.formula
         /\ Others(now, lastCall.name) = Others(was, lastCall.name)

\* a save that replaced the second of three stored formulas by another one
\* of its name
C18_Witness ==
  /\ lastCall.op = "saveFormula"
  /\ \E now \in {loadFormulas(localStorage).formulas} :
     \E was \in {loadFormulas(lastCall.before).formulas} :
       /\ Len(was) = 3 /\ Len(now) = 3
       /\ was[2].name = lastCall.name
       /\ was[2] # lastCall.formula

\* --------------------------------------------------------------- C19
\* C19: right after deleteFormula(name) the list holds no entry of that
\* name, and holds every other entry of the list before, unchanged and in
\* the same order; if no entry had the name the list is as before.
C19_DeleteRemovesName ==
  lastCall.op = "deleteFormula" =>
    \E now \in {loadFormulas(localStorage).formulas} :
    \E was \in {loadFormulas(lastCall.before).formulas} :
      /\ lastCall.status = "ok"
      /\ Named(now, lastCall.name) = {}
      /\ now = Others(was, lastCall.name)
      /\ Named(was, lastCall.name) = {} => now = was

\* a delete of a name stored twice, in front of an entry of another name
C19_Witness ==
  /\ lastCall.op = "deleteFormula"
  /\ \E now \in {loadFormulas(localStorage).formulas} :
     \E was \in {loadFormulas(lastCall.before).formulas} :
       /\ Named(was, lastCall.name) = {1, 2}
       /\ Len(was) = 3
       /\ now = <<was[3]>>

\* --------------------------------------------------------------- C20
\* C20: loadFormulas does not raise; it returns the empty list when no item
\* is stored and when the stored text is not JSON; it leaves the item as it
\* was.
C20_LoadNeverRaises ==
  lastCall.op = "loadFormulas" =>
    /\ lastCall.status = "ok" /\ loaded.status = "ok"
    /\ ~lastCall.before.present => loaded.formulas = <<>>
    /\ lastCall.before.text \in CorruptTexts => loaded.formulas = <<>>
    /\ localStorage = lastCall.before

\* a load that found a text cut off inside a formula
C20_Witness ==
  /\ lastCall.op = "loadFormulas"
  /\ lastCall.before.present
  /\ lastCall.before.text \in CorruptTexts
  /\ Len(lastCall.before.text) > Len(NotJson)
  /\ loaded = [status |-> "ok", formulas |-> <<>>]

\* =================================================== calculator reducer
\* Keys of the calculator: three digits, and every operator and function.
CalcDigits == {"0", "2", "5"}
\* Longest operand that is typed, in characters.
MaxTyped == 3
\* Largest number of reducer functions applied in one run.
MaxSteps == 5

InitCalc ==
  /\ EngineIdle
  /\ StoreIdle
  /\ CalcIdle
  /\ CallsIdle
  /\ MainIdle

\* The run goes on while the operands are tracked and steps are left.
CanStep ==
  /\ steps < MaxSteps
  /\ ~IsUntracked(state.currentOperand)
  /\ ~IsUntracked(state.previousOperand)

Apply(type, value, next) ==
  /\ state' = next
  /\ lastAction' = [type |-> type, value |-> value, before |-> state]
  /\ steps' = steps + 1
  /\ UNCHANGED <<earlier, engineVars, lexVars, storeVars, callVars, mainVars>>

AppendDigit ==
  /\ CanStep
  /\ state.shouldResetDisplay \/ Len(state.currentOperand) < MaxTyped
  /\ \E d \in CalcDigits : Apply("appendDigit", <<d>>, appendDigit(state, d))

AppendDecimal ==
  /\ CanStep
  /\ state.shouldResetDisplay \/ Len(state.currentOperand) < MaxTyped
  /\ Apply("appendDecimal", <<>>, appendDecimal(state))

SetOperator ==
  /\ CanStep
  /\ \E op \in OperatorChars : Apply("setOperator", <<op>>, setOperator(state, op))

Equals == CanStep /\ Apply("evaluate", <<>>, evaluate(state))

ToggleSign == CanStep /\ Apply("toggleSign", <<>>, toggleSign(state))

Percentage == CanStep /\ Apply("percentage", <<>>, percentage(state))

ApplyScientific ==
  /\ CanStep
  /\ \E fn \in ScientificNames : Apply("applyScientific", fn, applyScientific(state, fn))

Clear == steps < MaxSteps /\ Apply("clear", <<>>, clear)

NextCalc ==
  \/ AppendDigit \/ AppendDecimal \/ SetOperator \/ Equals
  \/ ToggleSign \/ Percentage \/ ApplyScientific \/ Clear

SpecCalc == InitCalc /\ [][NextCalc]_vars

\* --------------------------------------------------------------- C17
\* an operand as it is typed: an optional '-', then digits and '.', with a
\* digit among them
IsNumeral(str) ==
  \E body \in {IF HasPrefix(str, <<"-">>) THEN Tail(str) ELSE str} :
    /\ \A i \in 1..Len(body) : body[i] \in Digits \cup {"."}
    /\ \E i \in 1..Len(body) : body[i] \in Digits
\* the expression "a op b" for the operands and the operator of a state
PendingExpression(s) == s.previousOperand \o <<s.operator>> \o s.currentOperand
\* the expression "fn(x)", and the binding of x to a value
CallOfX(fn) == fn \o <<"(", "x", ")">>
XIs(value) == [nm \in {<<"x">>} |-> value]
DomainFunctions == {<<"l", "n">>, <<"l", "o", "g">>, <<"s", "q", "r", "t">>}

\* C17: evaluate on operands a, b and a pending operator op shows "Error"
\* exactly when evaluateExpression("a op b") is NaN, and the text of that
\* number otherwise; applyScientific with ln, log or sqrt shows "Error"
\* exactly when the function of that name in evaluateExpression gives NaN.
C17_ReducerAgreesWithEngine ==
  /\ ( /\ lastAction.type = "evaluate"
       /\ lastAction.before.operator # "null"
       /\ IsNumeral(lastAction.before.previousOperand)
       /\ IsNumeral(lastAction.before.currentOperand) )
     => \E r \in {evaluateExpression(PendingExpression(lastAction.before), EmptyMap)} :
          /\ r.status = "value"
          /\ state.display = ErrorText <=> IsNaN(r.value)
          /\ ~IsNaN(r.value) => state.display = String(r.value)
  /\ ( /\ lastAction.type = "applyScientific"
       /\ lastAction.value \in DomainFunctions
       /\ ~IsUntracked(lastAction.before.currentOperand) )
     => \E r \in {evaluateExpression(CallOfX(lastAction.value),
                                     XIs(parseFloat(lastAction.before.currentOperand)))} :
          /\ r.status = "value"
          /\ state.display = ErrorText <=> IsNaN(r.value)

\* a division of a typed operand by a typed zero
C17_Witness ==
  /\ lastAction.type = "evaluate"
  /\ lastAction.before.operator = "/"
  /\ IsNumeral(lastAction.before.previousOperand)
  /\ lastAction.before.previousOperand # <<"0">>
  /\ IsNumeral(lastAction.before.currentOperand)
  /\ ~lastAction.before.shouldResetDisplay
  /\ IsZero(parseFloat(lastAction.before.currentOperand))
  /\ state.display = ErrorText

\* ====================================================== concurrent calls
\* Two calls in progress at once, each of any of the three functions, on
\* texts that end in a value, in a lexer error and in each kind of parser
\* error; both are handed the same variables mapping.
CallIds == {1, 2}
CallKinds == {"tokenize", "extractVariables", "evaluateExpression"}
CallTexts ==
  {<<"2", "+", "3", "*", "x">>, <<"s", "q", "r", "t", "(", "4", ")">>,
   <<"-", "x", "^", "2">>, <<"y", " ", "/", "2">>, <<"(", "2">>, <<"x", "@">>}

InitCalls ==
  /\ formulaExpression = <<>>
  /\ values = BoundMap
  /\ pc = "idle"
  /\ result = NoResult
  /\ lexResult = NoLex
  /\ extracted = NoNames
  /\ StoreIdle
  /\ CalcIdle
  /\ MainIdle
  /\ calls \in [CallIds -> {NewCall(kind, text, values) :
                              kind \in CallKinds, text \in CallTexts}]
  /\ frames = [self \in CallIds |-> NoFrame]

InFlight(self) == calls[self].pc \notin {"start", "done"}

\* call self takes the step with outcome r, on its frame
Take(self, r) ==
  /\ calls' = [calls EXCEPT
       ![self] = [r.call EXCEPT !.overlapped =
                    @ \/ \E other \in CallIds \ {self} : InFlight(other)]]
  /\ frames' = [frames EXCEPT ![FrameOf(self)] = r.frame]
  /\ UNCHANGED <<engineVars, lexVars, storeVars, calcVars, mainVars>>

BeginCall(self) ==
  /\ calls[self].pc = "start"
  /\ \E r \in {beginStep(calls[self], frames[FrameOf(self)])} : Take(self, r)

ScanStep(self) ==
  /\ calls[self].pc = "scan"
  /\ \E r \in {scanStep(calls[self], frames[FrameOf(self)])} : Take(self, r)

CollectStep(self) ==
  /\ calls[self].pc = "collect"
  /\ \E r \in {collectStep(calls[self], frames[FrameOf(self)])} : Take(self, r)

ParseStep(self) ==
  /\ calls[self].pc = "parse"
  /\ \E r \in {parseStep(calls[self], frames[FrameOf(self)])} : Take(self, r)

NextCalls ==
  \E self \in CallIds :
    BeginCall(self) \/ ScanStep(self) \/ CollectStep(self) \/ ParseStep(self)

SpecCalls == InitCalls /\ [][NextCalls]_vars

\* --------------------------------------------------------------- C16
\* what a call returns or raises when it runs alone
Alone(c) ==
  CASE c.kind = "tokenize" ->
         Bind(tokenize(c.expression), LAMBDA r :
           Outcome(r.status, r.tokens, <<>>, NoValue, r.error))
    [] c.kind = "extractVariables" ->
         Bind(extractVariables(c.expression), LAMBDA r :
           Outcome(r.status, <<>>, r.names, NoValue, NoError))
    [] c.kind = "evaluateExpression" ->
         Bind(evaluateExpression(c.expression, c.variables), LAMBDA r :
           Outcome(r.status, <<>>, <<>>, r.value, r.error))

\* C16: whatever the interleaving of the steps of two calls, each call ends
\* with what it returns or raises when run alone, and the variables mapping
\* stays as it was handed over.
C16_CallsDoNotInterfere ==
  \A self \in DOMAIN calls :
    /\ values = calls[self].variables
    /\ calls[self].pc = "done" => calls[self].out = Alone(calls[self])

\* two evaluations that ran interleaved, one ending in a value and one in
\* an error
C16_Witness ==
  /\ calls # <<>>
  /\ \A self \in CallIds :
       /\ calls[self].pc = "done"
       /\ calls[self].kind = "evaluateExpression"
       /\ calls[self].overlapped
  /\ calls[1].out.status = "value"
  /\ calls[2].out.status = "error"

\* ========================================================= calls that end
\* A call that has begun runs on: JavaScript runs it to its return or its
\* throw before any other code of the page runs.
Step(self) == ScanStep(self) \/ ParseStep(self)

\* the same call of tokenize or of evaluateExpression made twice, as two
\* clicks on one button make it
InitCallsFair ==
  /\ InitCalls
  /\ \A self \in CallIds :
       /\ calls[self].kind \in {"tokenize", "evaluateExpression"}
       /\ calls[self] = calls[1]

NextCallsFair == \E self \in CallIds : BeginCall(self) \/ Step(self)

SpecCallsFair ==
  /\ InitCallsFair
  /\ [][NextCallsFair]_vars
  /\ \A self \in CallIds : WF_vars(Step(self))

\* --------------------------------------------------------------- C26
Cursors(self) == frames[FrameOf(self)]
\* call self took a step
Stepped(self) == <<calls[self], Cursors(self)>>' # <<calls[self], Cursors(self)>>
\* an iteration of the while loop of tokenize moved the cursor i forward or
\* ended the call by a throw
LexerConsumes(self) ==
  (calls[self].pc = "scan" /\ Cursors(self).i <= Len(calls[self].expr) /\ Stepped(self))
    => \/ Cursors(self)'.i > Cursors(self).i /\ calls'[self].pc = "scan"
       \/ calls'[self].pc = "done"
\* a parse function that has returned left the cursor pos beyond the place
\* where it began: beyond 0 for the parseAddSub that evaluateExpression
\* calls, beyond the place its caller noted for any other
ParserConsumes(self) ==
  (calls[self].pc = "parse" /\ calls[self].ctl.mode = "ret")
    => IF calls[self].stack = <<>>
         THEN Cursors(self).pos > 0
         ELSE Cursors(self).pos > calls[self].stack[Len(calls[self].stack)].at
IsNumber(v) == v.k \in {"num", "inf", "nan", "unrep"}
\* a call of tokenize ended with its tokens or an error, a call of
\* evaluateExpression with one number or an error
EndsProperly(self) ==
  calls[self].pc = "done" =>
    CASE calls[self].kind = "tokenize" ->
           \/ calls[self].out.status = "ok" /\ calls[self].out.error = NoError
           \/ calls[self].out.status = "throw" /\ calls[self].out.error # NoError
      [] calls[self].kind = "evaluateExpression" ->
           \/ /\ calls[self].out.status = "value"
              /\ IsNumber(calls[self].out.value)
              /\ calls[self].out.error = NoError
           \/ /\ calls[self].out.status = "error"
              /\ calls[self].out.value = NoValue
              /\ calls[self].out.error # NoError
      [] OTHER -> TRUE

\* C26: every iteration of the lexer consumes a character or raises, every
\* parse function that returns has consumed a token, and every call that
\* has begun ends, by raising an error or by returning its tokens
\* (tokenize) or one number (evaluateExpression).
C26_CallsTerminate ==
  /\ [][\A self \in CallIds : LexerConsumes(self)]_vars
  /\ [](\A self \in CallIds : ParserConsumes(self) /\ EndsProperly(self))
  /\ \A self \in CallIds : (calls[self].pc # "start") ~> (calls[self].pc = "done")

\* two evaluations of "2+3*x" that ran interleaved, both ended with -4
C26_Witness ==
  /\ calls # <<>>
  /\ \A self \in CallIds :
       /\ calls[self].pc = "done"
       /\ calls[self].kind = "evaluateExpression"
       /\ calls[self].overlapped
       /\ Len(calls[self].expr) = 5
       /\ calls[self].out.status = "value"
       /\ calls[self].out.value = FromInt(-4)

\* ======================================================= typing operands
\* Digits and decimal points only, from the initial state.
NextTyping == AppendDigit \/ AppendDecimal

SpecTyping == InitCalc /\ [][NextTyping]_vars

\* --------------------------------------------------------------- C25
DotCount(str) == Cardinality({i \in 1..Len(str) : str[i] = "."})

\* C25: after appendDigit and appendDecimal calls from the initial state
\* the current operand holds at most one '.', and appendDecimal on an
\* operand that holds one returns the state it was given.
C25_NoDuplicateDecimal ==
  /\ DotCount(state.currentOperand) <= 1
  /\ (lastAction.type = "appendDecimal" /\ DotCount(lastAction.before.currentOperand) >= 1)
       => state = lastAction.before

\* a second decimal point asked for right after digit, point
C25_Witness ==
  /\ lastAction.type = "appendDecimal"
  /\ Len(lastAction.before.currentOperand) = 2
  /\ lastAction.before.currentOperand[1] # "0"
  /\ lastAction.before.currentOperand[2] = "."
  /\ state.currentOperand = lastAction.before.currentOperand

\* =================================================== chained operations
\* Operands typed digit by digit with operators and equals between them.
ChainDigits == {"0", "2", "3", "4"}
ChainOperators == {"+", "*", "/", "^"}
\* Largest number of reducer functions applied in one chain.
MaxChain == 6

\* the reducer function goes from state to next; an operator is remembered
Chained(type, value, next) ==
  /\ steps < MaxChain
  /\ ~IsUntracked(state.currentOperand)
  /\ ~IsUntracked(state.previousOperand)
  /\ state' = next
  /\ lastAction' = [type |-> type, value |-> value, before |-> state]
  /\ earlier' = IF type = "setOperator" THEN lastAction' ELSE earlier
  /\ steps' = steps + 1
  /\ UNCHANGED <<engineVars, lexVars, storeVars, callVars, mainVars>>

ChainDigit ==
  /\ state.shouldResetDisplay \/ Len(state.currentOperand) < MaxTyped
  /\ \E d \in ChainDigits : Chained("appendDigit", <<d>>, appendDigit(state, d))

ChainOperator ==
  \E op \in ChainOperators : Chained("setOperator", <<op>>, setOperator(state, op))

ChainEquals == Chained("evaluate", <<>>, evaluate(state))

NextChain == ChainDigit \/ ChainOperator \/ ChainEquals

SpecChain == InitCalc /\ [][NextChain]_vars

\* --------------------------------------------------------------- C23
\* the text shown for a op b
Shows(a, op, b) == displayOf(calculate(op, parseFloat(a), parseFloat(b)))
\* the operator key came with an operator pending and its operand typed
IsChained(pressed) ==
  /\ pressed.type = "setOperator"
  /\ pressed.before.operator # "null"
  /\ ~pressed.before.shouldResetDisplay

\* C23: setOperator(o2) on a pending operator o1 with left operand a and a
\* typed operand b shows a o1 b and makes what it shows the left operand of
\* o2; evaluate, after an operand c has been typed, then shows
\* (a o1 b) o2 c.
C23_ChainsLeftToRight ==
  /\ IsChained(lastAction) =>
       \E shownText \in {Shows(lastAction.before.previousOperand,
                                lastAction.before.operator,
                                lastAction.before.currentOperand)} :
         /\ state.display = shownText
         /\ state.previousOperand = shownText
         /\ state.operator = lastAction.value[1]
  /\ ( /\ lastAction.type = "evaluate"
       /\ lastAction.before.operator # "null"
       /\ ~lastAction.before.shouldResetDisplay
       /\ IsChained(earlier) )
     => state.display =
          Shows(Shows(earlier.before.previousOperand, earlier.before.operator,
                      earlier.before.currentOperand),
                earlier.value[1], lastAction.before.currentOperand)

\* 2 + 3 * 4 = shows 20
C23_Witness ==
  /\ lastAction.type = "evaluate"
  /\ lastAction.before.currentOperand = <<"4">>
  /\ ~lastAction.before.shouldResetDisplay
  /\ IsChained(earlier)
  /\ earlier.value = <<"*">>
  /\ earlier.before.previousOperand = <<"2">>
  /\ earlier.before.operator = "+"
  /\ earlier.before.currentOperand = <<"3">>
  /\ state.display = <<"2", "0">>

\* ================================================ keys, undo and formulas
\* A run of main.ts from the moment it is loaded: a fixed round of keys
\* pressed over and over fills the history, and at the starts named in
\* FreeFrom the run goes on with keys chosen freely.
Key(action, value) == [action |-> action, value |-> value]
ScriptKeys ==
  <<Key("digit", <<"2">>), Key("operator", <<"+">>), Key("digit", <<"4">>),
    Key("equals", <<>>), Key("toggle-sign", <<>>), Key("clear", <<>>)>>
ScriptKey(pressed) == ScriptKeys[(pressed % Len(ScriptKeys)) + 1]
\* at load, with 2 + 4 typed, and with the history one short of full
FreeFrom == {0, 3, MAX_HISTORY - 1}
\* Largest number of keys chosen freely in one run.
MaxPresses == 3

MainKeys ==
  {Key("digit", <<d>>) : d \in {"2", "5"}}
    \cup {Key("operator", <<op>>) : op \in {"+", "/"}}
    \cup {Key("scientific", fn) : fn \in {<<"s", "q", "r", "t">>, <<"l", "n">>}}
    \cup {Key(action, <<>>) :
            action \in {"decimal", "equals", "clear", "toggle-sign", "percentage"}}
\* texts of the expression field: a product, a division by zero, an
\* unclosed parenthesis and blanks only
FormulaTexts ==
  {<<" ", "x", "*", "3", " ">>, <<"1", "/", "0">>, <<"(", "2">>, <<" ", " ">>}

InitMain ==
  /\ EngineIdle
  /\ StoreIdle
  /\ CalcIdle
  /\ CallsIdle
  /\ MainIdle

\* the key or the formula goes to the handler, which leaves m
Handled(action, value, m, chosen) ==
  /\ state' = m.state
  /\ activeOperator' = m.activeOperator
  /\ history' = m.history
  /\ textContent' = m.textContent
  /\ log' = Append(log, [action |-> action, value |-> value, before |-> state])
  /\ historyBefore' = history
  /\ freed' = freed + chosen
  /\ UNCHANGED <<lastAction, steps, earlier>>
  /\ UNCHANGED <<engineVars, lexVars, storeVars, callVars>>

Current == Main(state, activeOperator, history, textContent)

\* The free part of the run goes on while the operands are tracked and
\* presses are left.
CanPress ==
  /\ freed < MaxPresses
  /\ freed > 0 \/ Len(log) \in FreeFrom
  /\ ~IsUntracked(state.currentOperand)
  /\ ~IsUntracked(state.previousOperand)

\* the next key of the round
ScriptedKey ==
  /\ freed = 0
  /\ Len(log) < MAX_HISTORY
  /\ \E key \in {ScriptKey(Len(log))} :
       \E m \in {handleAction(Current, key.action, key.value)} :
         Handled(key.action, key.value, m, 0)

\* a button of the grids or a key of the keyboard, other than undo
HandleAction ==
  /\ CanPress
  /\ \E key \in MainKeys :
       \E m \in {handleAction(Current, key.action, key.value)} :
         Handled(key.action, key.value, m, 1)

\* the undo button, or Ctrl+Z
Undo ==
  /\ CanPress
  /\ \E m \in {handleAction(Current, "undo", <<>>)} : Handled("undo", <<>>, m, 1)

\* the evaluate button of the formula panel
FormulaEval ==
  /\ CanPress
  /\ \E text \in FormulaTexts :
       \E m \in {formulaEval(Current, text, BoundMap)} :
         Handled("formula", text, m, 1)

NextMain == ScriptedKey \/ HandleAction \/ Undo \/ FormulaEval

SpecMain == InitMain /\ [][NextMain]_vars

\* --------------------------------------------------------------- C21
\* the key pressed or the formula evaluated last
LastPress == log[Len(log)]
\* the press went through handleAction and was not an undo
IsPush(pressed) == pressed.action \notin {"undo", "formula"}

\* C21: the history never holds more than MAX_HISTORY states, and a key
\* other than undo that meets a full history leaves the history without its
\* oldest state and with the state the key met as its newest.
C21_HistoryIsCapped ==
  /\ Len(history) <= MAX_HISTORY
  /\ (log # <<>> /\ IsPush(LastPress) /\ Len(historyBefore) = MAX_HISTORY)
       => history = Append(Tail(historyBefore), LastPress.before)

\* a key met a full history whose oldest state differs from the second
\* oldest
C21_Witness ==
  /\ log # <<>>
  /\ IsPush(LastPress)
  /\ Len(historyBefore) = MAX_HISTORY
  /\ historyBefore[1] # historyBefore[2]
  /\ Len(history) = MAX_HISTORY
  /\ history[1] = historyBefore[2]

\* --------------------------------------------------------------- C22
\* the last count presses, and the count presses before them
LastPresses(count) == (Len(log) - count + 1)..Len(log)
PressesBefore(count) == (Len(log) - 2 * count + 1)..(Len(log) - count)
Fewest(a, b) == IF a <= b THEN a ELSE b

\* C22: when the last k presses were undos and the k presses before them
\* were keys other than undo, for k up to MAX_HISTORY, the state is the one
\* the first of those keys met; and an undo that met an empty history left
\* the state as it was.
C22_UndoReverts ==
  /\ \A k \in 1..Fewest(MAX_HISTORY, Len(log) \div 2) :
       ( /\ \A i \in LastPresses(k) : log[i].action = "undo"
         /\ \A i \in PressesBefore(k) : IsPush(log[i]) )
       => state = log[Len(log) - 2 * k + 1].before
  /\ (log # <<>> /\ LastPress.action = "undo" /\ historyBefore = <<>>)
       => state = LastPress.before /\ history = <<>>

\* three undos after three keys, each undo and each key changing the state
C22_Witness ==
  /\ Len(log) >= 6
  /\ \A i \in LastPresses(3) : log[i].action = "undo"
  /\ \A i \in PressesBefore(3) : IsPush(log[i])
  /\ \A i \in (Len(log) - 5)..(Len(log) - 1) : log[i].before # log[i + 1].before
  /\ state # LastPress.before

\* --------------------------------------------------------------- C24
\* the press before the last one
PressBefore == log[Len(log) - 1]
\* the function key left the pending operator and the left operand alone
\* and put f(current) in the current operand and the display
AppliedToCurrent ==
  (log # <<>> /\ LastPress.action = "scientific") =>
    /\ state.operator = LastPress.before.operator
    /\ state.previousOperand = LastPress.before.previousOperand
    /\ state.currentOperand =
         displayOf(scientific(LastPress.value, parseFloat(LastPress.before.currentOperand)))
    /\ state.display = state.currentOperand
\* equals or an operator key, pressed right after a function key that met a
\* pending operator and a typed right operand, shows left operand, pending
\* operator, f(current)
PendingCarriedOut ==
  ( /\ Len(log) >= 2
    /\ PressBefore.action = "scientific"
    /\ PressBefore.before.operator # "null"
    /\ ~PressBefore.before.shouldResetDisplay
    /\ LastPress.action \in {"equals", "operator"} )
  => state.display = Shows(PressBefore.before.previousOperand,
                           PressBefore.before.operator,
                           LastPress.before.currentOperand)

\* C24: applyScientific replaces the current operand and the display by
\* f(current) and leaves the pending operator and the left operand as they
\* were, and the pending operation is carried out with f(current) as right
\* operand by the next evaluate or the next operator.
C24_ScientificKeepsPending == AppliedToCurrent /\ PendingCarriedOut

\* --------------------------------------------------------------- C27
\* C27: in every state main.ts reaches by keys, formula evaluations and
\* undos, the display string is the current operand string.
C27_DisplayIsCurrentOperand == state.display = state.currentOperand

\* the formula " x*3 " evaluated with x = -2, on a state showing something
\* else
C27_Witness ==
  /\ log # <<>>
  /\ LastPress.action = "formula"
  /\ LastPress.before.display \notin {<<"0">>, <<"-", "6">>}
  /\ state.display = <<"-", "6">>
  /\ state.currentOperand = <<"-", "6">>

\* --------------------------------------------------------------- C28
\* C28: in every state main.ts reaches, operator is null exactly when
\* previousOperand is the empty string, and evaluate returns the state it
\* is given exactly when operator is null.
C28_OperatorIffLeftOperand ==
  /\ state.operator = "null" <=> state.previousOperand = <<>>
  /\ evaluate(state) = state <=> state.operator = "null"

\* an undo brought back a pending operator that equals had carried out
C28_Witness ==
  /\ Len(log) >= 2
  /\ LastPress.action = "undo"
  /\ PressBefore.action = "equals"
  /\ LastPress.before.operator = "null"
  /\ state.operator # "null"
  /\ state.previousOperand # <<>>
  /\ evaluate(state) = LastPress.before

\* --------------------------------------------------------------- C29
\* a numeral as it is typed, or the text of a number: String of a finite
\* double, of an infinity, or of a double the model does not track
IsNumericString(str) ==
  \/ IsNumeral(str)
  \/ str \in {InfinityText, <<"-">> \o InfinityText}
  \/ IsUntracked(str)
WellFormed(str) == str = ErrorText \/ IsNumericString(str)

\* C29: in every state main.ts reaches, the display string of the state and
\* the text of the display element are "Error" or a numeric string.
C29_DisplayWellFormed == WellFormed(state.display) /\ WellFormed(textContent)

====
